---- MODULE Spec2Model ----
(***************************************************************************)
(* A model of the vibemulator NES core: the Bus clock interleave           *)
(* (bus/bus.go), the PPU dot counter with vblank/NMI, its status flags,    *)
(* register write toggle, sprite evaluation and palette mirroring          *)
(* (cartridge/uxrom.go), OAM DMA, the APU and MMC3 interrupt sources, the  *)
(* MMC1 serial port and PRG banking (cartridge/mmc1.go), the 6502 cycle    *)
(* accounting (cpu/cpu.go), the controller shift register                  *)
(* (controller/controller.go), the save state snapshot, the ROM loader     *)
(* (cartridge/cartridge.go) with the address translation of the five       *)
(* mappers, and the APU channel enables and frame sequencer (apu/apu.go).   *)
(*                                                                         *)
(* The emulator is one record, nes, threaded through operators that are    *)
(* named after the Go methods they model.  nes.obs holds probes: counters  *)
(* and the trace of the last tick, written by the components as they run.  *)
(* Probes are not program state; they are what the properties observe.     *)
(* Specifications that exercise one component alone keep it in ex.         *)
(***************************************************************************)
EXTENDS Integers, Sequences, FiniteSets, TLC

VARIABLES
    nes,    \* the Bus and everything it owns (CPU, PPU, APU, mapper, controllers)
    steps,  \* number of host operations performed in this run (run budget)
    disk,   \* the save-state file: NoFile or a bus State
    ex,     \* the component under a unit harness (CPU, PPU, APU, cartridge) and its probes
    jlog    \* observer of the controller protocol (strobe phase, reads)

vars == <<nes, steps, disk, ex, jlog>>

-----------------------------------------------------------------------------
(* Bytes and bits *)

Bit(v, k) == (v \div (2 ^ k)) % 2

SetBit(v, k) == IF Bit(v, k) = 1 THEN v ELSE v + 2 ^ k

ClrBit(v, k) == IF Bit(v, k) = 1 THEN v - 2 ^ k ELSE v

B2N(b) == IF b THEN 1 ELSE 0

CeilDiv3(n) == (n + 2) \div 3

-----------------------------------------------------------------------------
(* Controller (controller/controller.go) *)

\* Button order of Controller.buttons: index 0..7.
ButtonNames == <<"A", "B", "Select", "Start", "Up", "Down", "Left", "Right">>

NewController ==
    [buttons |-> [i \in 0..7 |-> FALSE], index |-> 0, strobe |-> 0]

SetButtons(c, buttons) == [c EXCEPT !.buttons = buttons]

ControllerWrite(c, data) ==
    LET s == data % 2
    IN  [c EXCEPT !.strobe = s, !.index = IF s = 1 THEN 0 ELSE @]

\* The byte Controller.Read returns.
ControllerReadValue(c) ==
    IF c.index >= 8 THEN 1 ELSE B2N(c.buttons[c.index])

ControllerReadNextStrobeBlind(c) ==
    IF c.index >= 8 THEN c ELSE [c EXCEPT !.index = (@ + 1) % 256]

\* The controller after Controller.Read.
ControllerReadNext(c) ==
    IF c.index >= 8 THEN c
    ELSE IF c.strobe = 0 THEN [c EXCEPT !.index = (@ + 1) % 256]
    ELSE c

-----------------------------------------------------------------------------
(* CPU: instruction table and cycle accounting (cpu/cpu.go) *)

\* Bit positions of the status flags, Flag() in cpu.go.
FlagC == 0

FlagZ == 1

FlagV == 6

FlagN == 7

\* The three columns of CPU.Lookup that decide timing, indexed by opcode + 1:
\* the operation run, the addressing mode, the base cycles.  Opcodes absent
\* from the table literal are filled with {"XXX", nop, imp, 2}.
LookupOperate ==
  <<
    "nop", "ora", "nop", "nop", "nop", "ora", "asl", "nop", "php", "ora", "asl", "anc", "nop", "ora", "asl", "nop",
    "bpl", "ora", "nop", "nop", "nop", "ora", "asl", "nop", "clc", "ora", "nop", "nop", "nop", "ora", "asl", "nop",
    "jsr", "and", "nop", "rla", "bit", "and", "rol", "rla", "plp", "and", "rol", "anc", "bit", "and", "rol", "rla",
    "bmi", "and", "nop", "rla", "nop", "and", "rol", "rla", "sec", "and", "nop", "rla", "nop", "and", "rol", "rla",
    "rti", "eor", "nop", "nop", "nop", "eor", "lsr", "nop", "pha", "eor", "lsr", "alr", "jmp", "eor", "lsr", "nop",
    "bvc", "eor", "nop", "nop", "nop", "eor", "lsr", "nop", "cli", "eor", "nop", "nop", "nop", "eor", "lsr", "nop",
    "rts", "adc", "nop", "rra", "nop", "adc", "ror", "rra", "pla", "adc", "ror", "arr", "jmp", "adc", "ror", "rra",
    "bvs", "adc", "nop", "rra", "nop", "adc", "ror", "rra", "sei", "adc", "nop", "rra", "nop", "adc", "ror", "rra",
    "nop", "sta", "nop", "sax", "sty", "sta", "stx", "sax", "dey", "nop", "txa", "nop", "sty", "sta", "stx", "sax",
    "bcc", "sta", "nop", "nop", "sty", "sta", "stx", "sax", "tya", "sta", "txs", "nop", "nop", "sta", "nop", "nop",
    "ldy", "lda", "ldx", "lax", "ldy", "lda", "ldx", "lax", "tay", "lda", "tax", "nop", "ldy", "lda", "ldx", "lax",
    "bcs", "lda", "nop", "lax", "ldy", "lda", "ldx", "lax", "clv", "lda", "tsx", "las", "ldy", "lda", "ldx", "lax",
    "cpy", "cmp", "nop", "dcp", "cpy", "cmp", "dec", "dcp", "iny", "cmp", "dex", "nop", "cpy", "cmp", "dec", "dcp",
    "bne", "cmp", "nop", "dcp", "nop", "cmp", "dec", "dcp", "cld", "cmp", "nop", "dcp", "nop", "cmp", "dec", "dcp",
    "cpx", "sbc", "nop", "isc", "cpx", "sbc", "inc", "isc", "inx", "sbc", "nop", "nop", "cpx", "sbc", "inc", "isc",
    "beq", "sbc", "nop", "isc", "nop", "sbc", "inc", "isc", "sed", "sbc", "nop", "isc", "nop", "sbc", "inc", "isc" >>

LookupAddrMode ==
  <<
    "imp", "izx", "imp", "imp", "imp", "zp0", "zp0", "imp", "imp", "imm", "imp", "imm", "imp", "abs", "abs", "imp",
    "rel", "izy", "imp", "imp", "imp", "zpx", "zpx", "imp", "imp", "aby", "imp", "imp", "imp", "abx", "abx", "imp",
    "abs", "izx", "imp", "izx", "zp0", "zp0", "zp0", "zp0", "imp", "imm", "imp", "imm", "abs", "abs", "abs", "abs",
    "rel", "izy", "imp", "izy", "imp", "zpx", "zpx", "zpx", "imp", "aby", "imp", "aby", "imp", "abx", "abx", "abx",
    "imp", "izx", "imp", "imp", "imp", "zp0", "zp0", "imp", "imp", "imm", "imp", "imm", "abs", "abs", "abs", "imp",
    "rel", "izy", "imp", "imp", "imp", "zpx", "zpx", "imp", "imp", "aby", "imp", "imp", "imp", "abx", "abx", "imp",
    "imp", "izx", "imp", "izx", "imp", "zp0", "zp0", "zp0", "imp", "imm", "imp", "imm", "ind", "abs", "abs", "abs",
    "rel", "izy", "imp", "izy", "imp", "zpx", "zpx", "zpx", "imp", "aby", "imp", "aby", "imp", "abx", "abx", "abx",
    "imp", "izx", "imp", "izx", "zp0", "zp0", "zp0", "zp0", "imp", "imp", "imp", "imm", "abs", "abs", "abs", "abs",
    "rel", "izy", "imp", "imp", "zpx", "zpx", "zpy", "zpy", "imp", "aby", "imp", "imp", "imp", "abx", "imp", "imp",
    "imm", "izx", "imm", "izx", "zp0", "zp0", "zp0", "zp0", "imp", "imm", "imp", "imm", "abs", "abs", "abs", "abs",
    "rel", "izy", "imp", "izy", "zpx", "zpx", "zpy", "zpy", "imp", "aby", "imp", "aby", "abx", "abx", "aby", "aby",
    "imm", "izx", "imp", "izx", "zp0", "zp0", "zp0", "zp0", "imp", "imm", "imp", "imp", "abs", "abs", "abs", "abs",
    "rel", "izy", "imp", "izy", "imp", "zpx", "zpx", "zpx", "imp", "aby", "imp", "aby", "imp", "abx", "abx", "abx",
    "imm", "izx", "imp", "izx", "zp0", "zp0", "zp0", "zp0", "imp", "imm", "imp", "imp", "abs", "abs", "abs", "abs",
    "rel", "izy", "imp", "izy", "imp", "zpx", "zpx", "zpx", "imp", "aby", "imp", "aby", "imp", "abx", "abx", "abx" >>

LookupCycles ==
  <<
    2, 6, 2, 2, 2, 3, 5, 2, 3, 2, 2, 2, 2, 4, 6, 2,
    2, 5, 2, 2, 2, 4, 6, 2, 2, 4, 2, 2, 2, 4, 7, 2,
    6, 6, 2, 8, 3, 3, 5, 5, 4, 2, 2, 2, 4, 4, 6, 6,
    2, 5, 2, 8, 2, 4, 6, 6, 2, 4, 2, 7, 2, 4, 7, 7,
    6, 6, 2, 2, 2, 3, 5, 2, 3, 2, 2, 2, 3, 4, 6, 2,
    2, 5, 2, 2, 2, 4, 6, 2, 2, 4, 2, 2, 2, 4, 7, 2,
    6, 6, 2, 8, 2, 3, 5, 5, 4, 2, 2, 2, 5, 4, 6, 6,
    2, 5, 2, 8, 2, 4, 6, 6, 2, 4, 2, 7, 2, 4, 7, 7,
    2, 6, 2, 6, 3, 3, 3, 3, 2, 2, 2, 2, 4, 4, 4, 4,
    2, 6, 2, 2, 4, 4, 4, 4, 2, 5, 2, 2, 2, 5, 2, 2,
    2, 6, 2, 6, 3, 3, 3, 3, 2, 2, 2, 2, 4, 4, 4, 4,
    2, 5, 2, 5, 4, 4, 4, 4, 2, 4, 2, 4, 4, 4, 4, 4,
    2, 6, 2, 8, 3, 3, 5, 5, 2, 2, 2, 2, 4, 4, 6, 6,
    2, 5, 2, 8, 2, 4, 6, 6, 2, 4, 2, 7, 2, 4, 7, 7,
    2, 6, 2, 8, 3, 3, 5, 5, 2, 2, 2, 2, 4, 4, 6, 6,
    2, 5, 2, 8, 2, 4, 6, 6, 2, 4, 2, 7, 2, 4, 7, 7 >>

OpOperate(op) == LookupOperate[op + 1]

\* An addressing mode for the unfilled table entries that takes an operand.
OpAddrModeXxxImm(op) ==
    IF LookupOperate[op + 1] = "nop" THEN "imm" ELSE LookupAddrMode[op + 1]

OpAddrMode(op) == LookupAddrMode[op + 1]

OpCycles(op) == LookupCycles[op + 1]

\* What the addressing-mode function returns (1 = page crossed) for operand
\* bytes lo, hi, pointer high byte ptrHi (the high byte izy reads through the
\* zero-page pointer, lo being the low byte it reads) and index registers.
AddrModeReturn(mode, lo, hi, ptrHi, X, Y) ==
    CASE mode = "abx" -> IF lo + X > 255 THEN 1 ELSE 0
      [] mode = "aby" -> IF lo + Y > 255 THEN 1 ELSE 0
      [] mode = "izy" -> IF lo + Y > 255 THEN 1 ELSE 0
      [] OTHER -> 0

\* What the operation function returns: adc, sbc and cmp return 1, all others 0.
OperateReturn(operate) ==
    IF operate \in {"adc", "sbc", "cmp"} THEN 1 ELSE 0

\* Is the branch operation taken under status byte P?
BranchTaken(operate, P) ==
    CASE operate = "bcc" -> Bit(P, FlagC) = 0
      [] operate = "bcs" -> Bit(P, FlagC) = 1
      [] operate = "bne" -> Bit(P, FlagZ) = 0
      [] operate = "beq" -> Bit(P, FlagZ) = 1
      [] operate = "bpl" -> Bit(P, FlagN) = 0
      [] operate = "bmi" -> Bit(P, FlagN) = 1
      [] operate = "bvc" -> Bit(P, FlagV) = 0
      [] operate = "bvs" -> Bit(P, FlagV) = 1
      [] OTHER -> FALSE

\* rel(): the operand byte sign-extended to 16 bits.
RelOffset(lo) == IF lo >= 128 THEN lo + 65280 ELSE lo

\* PC after the opcode and the one-byte operand of a branch fetched at pc.
NextPC(pc) == (pc + 2) % 65536

\* branch(): c.addrAbs = c.PC + c.addrRel.
BranchTarget(pc, lo) == (NextPC(pc) + RelOffset(lo)) % 65536

\* branch(): the cycles it adds to c.Cycles: one, and one more on a page change.
BranchCycles(pc, lo) ==
    1 + (IF (BranchTarget(pc, lo) \div 256) # (NextPC(pc) \div 256) THEN 1 ELSE 0)

\* CPU.Clock, the fetch path: the value of c.Cycles before the final decrement.
InstrCycles(op, pc, lo, hi, ptrHi, X, Y, P) ==
    OpCycles(op)
      + (IF BranchTaken(OpOperate(op), P) THEN BranchCycles(pc, lo) ELSE 0)
      + ((AddrModeReturn(OpAddrMode(op), lo, hi, ptrHi, X, Y)
           + OperateReturn(OpOperate(op))) % 256)

-----------------------------------------------------------------------------
(* PPU: dot counter, vblank and NMI (PPU.Clock, PPU.CPURead, PPU.CPUWrite) *)

\* PPU.Reset as called by New: the first visible scanline, dot 0.  oamY is
\* the byte that fills the OAM (all zero in a new PPU, one byte repeated
\* after an OAM DMA from a page filled with it); vramAddr, the nametables and
\* the shifters are not part of this record.
NewPPU ==
    [Scanline |-> 0, Cycle |-> 0, FrameCounter |-> 0,
     Status |-> 0, Mask |-> 0, Ctrl |-> 0, addrLatch |-> 0, NMI |-> FALSE,
     vramTmpAddr |-> 0, fineX |-> 0, ppuData |-> 0, oamY |-> 0,
     spriteCount |-> 0, sprite0InScanline |-> FALSE, spriteZeroHit |-> FALSE]

LastCycle == 340

LastScanline == 260

VBlankScanline == 241

SkipCycle == 339

RenderingEnabled(p) == Bit(p.Mask, 3) = 1 \/ Bit(p.Mask, 4) = 1

\* The odd-frame skip at the top of PPU.Clock.
OddFrameSkip(p) ==
    /\ p.Scanline = -1
    /\ p.Cycle = SkipCycle
    /\ RenderingEnabled(p)
    /\ p.FrameCounter % 2 = 1

PPUAdvanceNoFrame(p) ==
    IF p.Cycle + 1 > LastCycle
    THEN IF p.Scanline + 1 > LastScanline
         THEN [p EXCEPT !.Cycle = 0, !.Scanline = -1]
         ELSE [p EXCEPT !.Cycle = 0, !.Scanline = @ + 1]
    ELSE [p EXCEPT !.Cycle = @ + 1]

\* The end of PPU.Clock: p.Cycle++ with the scanline and frame wrap.
PPUAdvance(p) ==
    IF p.Cycle + 1 > LastCycle
    THEN IF p.Scanline + 1 > LastScanline
         THEN [p EXCEPT !.Cycle = 0, !.Scanline = -1, !.FrameCounter = @ + 1]
         ELSE [p EXCEPT !.Cycle = 0, !.Scanline = @ + 1]
    ELSE [p EXCEPT !.Cycle = @ + 1]

\* Scanline 241, dot 1: set vblank, and raise NMI when PPUCTRL bit 7 is set.
PPUVBlankLevel(p) ==
    LET q == IF p.Scanline = VBlankScanline /\ p.Cycle = 1
             THEN [p EXCEPT !.Status = SetBit(@, 7)] ELSE p
    IN  [q EXCEPT !.NMI = IF Bit(q.Status, 7) = 1 /\ Bit(q.Ctrl, 7) = 1
                           THEN TRUE ELSE @]

\* Vblank that raises NMI whatever PPUCTRL says.
PPUVBlankAlways(p) ==
    IF p.Scanline = VBlankScanline /\ p.Cycle = 1
    THEN [p EXCEPT !.Status = SetBit(@, 7), !.NMI = TRUE]
    ELSE p

PPUVBlank(p) ==
    IF p.Scanline = VBlankScanline /\ p.Cycle = 1
    THEN [p EXCEPT !.Status = SetBit(@, 7),
                   !.NMI = IF Bit(p.Ctrl, 7) = 1 THEN TRUE ELSE @]
    ELSE p

\* Pre-render scanline, dot 1: Status &= 0x1F.  Dot 257 of a rendering
\* scanline: Status &= 0xDF (sprite evaluation starts).
PPUStatusClears(p) ==
    LET a == IF p.Scanline = -1 /\ p.Cycle = 1
             THEN [p EXCEPT !.Status = @ % 32] ELSE p
    IN  IF a.Cycle = 257 /\ a.Scanline >= -1 /\ a.Scanline < 240
        THEN [a EXCEPT !.Status = ClrBit(@, 5)] ELSE a

\* Pre-render scanline, dot 1, also clears p.spriteZeroHit.
PPUHitClear(p) ==
    IF p.Scanline = -1 /\ p.Cycle = 1
    THEN [p EXCEPT !.spriteZeroHit = FALSE] ELSE p

\* Sprite evaluation, dots 257..320 of scanlines -1..239: dot 257 empties
\* the secondary OAM; every dot looks at one sprite (all at Y = oamY), counts
\* it when the next scanline crosses it and sets overflow at the ninth.
PPUSpriteEval(p) ==
    IF p.Cycle >= 257 /\ p.Cycle <= 320 /\ p.Scanline >= -1 /\ p.Scanline < 240
    THEN LET count0 == IF p.Cycle = 257 THEN 0 ELSE p.spriteCount
             zero0 == IF p.Cycle = 257 THEN FALSE ELSE p.sprite0InScanline
             spriteHeight == IF Bit(p.Ctrl, 3) = 1 THEN 16 ELSE 8
             inRange == p.Scanline + 1 >= p.oamY
                          /\ p.Scanline + 1 < p.oamY + spriteHeight
             count == IF inRange THEN (count0 + 1) % 256 ELSE count0
         IN  [p EXCEPT !.spriteCount = count,
                       !.sprite0InScanline = zero0 \/ (inRange /\ p.Cycle = 257),
                       !.Status = IF inRange /\ count > 8 THEN SetBit(@, 5) ELSE @]
    ELSE p

\* Can renderPixel find an opaque background pixel under an opaque sprite
\* pixel on this dot?  Both layers are on, the secondary OAM is not empty and
\* the dot is one of the sprites' eight (their X is the OAM byte too).
PPUCanOverlap(p) ==
    /\ p.Scanline < 240 /\ p.Cycle >= 1 /\ p.Cycle <= 256
    /\ Bit(p.Mask, 3) = 1 /\ Bit(p.Mask, 4) = 1
    /\ p.spriteCount > 0
    /\ p.Cycle - 1 >= p.oamY /\ p.Cycle - 1 < p.oamY + 8

\* renderPixel: the sprite-0 hit.  opaque: this dot's background and sprite
\* pixels are both non-zero.
PPURenderPixel(p, opaque) ==
    IF p.Scanline < 240 /\ p.Cycle >= 1 /\ p.Cycle <= 256 /\ opaque
         /\ p.sprite0InScanline /\ ~p.spriteZeroHit /\ p.Cycle < 255
    THEN [p EXCEPT !.spriteZeroHit = TRUE] ELSE p

\* PPU.Clock: nothing without a cartridge; else the skip, or one dot.
PPUClock(p, hasCart, opaque) ==
    IF ~hasCart THEN p
    ELSE IF OddFrameSkip(p)
         THEN [p EXCEPT !.Cycle = 0, !.Scanline = 0, !.FrameCounter = @ + 1]
         ELSE PPUAdvance(PPURenderPixel(PPUVBlank(PPUSpriteEval(
                PPUStatusClears(PPUHitClear(p)))), opaque))

\* The byte PPU.CPURead returns for $2002.
PPUStatusByte(p) ==
    LET data == (p.Status \div 32) * 32 + (p.ppuData % 32)
    IN  IF p.spriteZeroHit THEN SetBit(data, 6) ELSE data

\* A $2002 read that leaves the write toggle alone.
PPUCPUReadKeepLatch(p, reg) ==
    IF reg = 2 THEN [p EXCEPT !.Status = ClrBit(@, 7)] ELSE p

\* PPU.CPURead, registers 0..7: only the $2002 read changes this state.
PPUCPURead(p, reg) ==
    IF reg = 2 THEN [p EXCEPT !.Status = ClrBit(@, 7), !.addrLatch = 0] ELSE p

\* PPU.CPUWrite, registers 0 (PPUCTRL), 1 (PPUMASK), 5 (PPUSCROLL) and
\* 6 (PPUADDR).
PPUCPUWrite(p, reg, data) ==
    LET t == p.vramTmpAddr
    IN  CASE reg = 0 ->
               [p EXCEPT !.Ctrl = data,
                         !.vramTmpAddr = t - ((t \div 1024) % 4) * 1024
                                           + (data % 4) * 1024]
          [] reg = 1 -> [p EXCEPT !.Mask = data]
          [] reg = 5 ->
               IF p.addrLatch = 0
               THEN [p EXCEPT !.fineX = data % 8,
                              !.vramTmpAddr = (t \div 32) * 32 + data \div 8,
                              !.addrLatch = 1]
               ELSE [p EXCEPT !.vramTmpAddr =
                                  (t \div 32768) * 32768
                                    + ((t \div 1024) % 4) * 1024 + (t % 32)
                                    + (data % 8) * 4096 + (data \div 8) * 32,
                              !.addrLatch = 0]
          [] reg = 6 ->
               IF p.addrLatch = 0
               THEN [p EXCEPT !.vramTmpAddr = (t % 256) + (data % 64) * 256,
                              !.addrLatch = 1]
               ELSE [p EXCEPT !.vramTmpAddr = (t \div 256) * 256 + data,
                              !.addrLatch = 0]
          [] OTHER -> p

-----------------------------------------------------------------------------
(* APU interrupt flags (APU.Clock, APU.CPURead, APU.CPUWrite) *)

NewAPU == [DmcIRQ |-> FALSE, FrameIRQ |-> FALSE, dmcIrqPending |-> FALSE]

\* DMCChannel.Clock: when the last sample byte is fetched with loop off and
\* IRQ enabled (dmcEnd) the channel sets irqPending; APU.Clock then copies it
\* into DmcIRQ.
APUClockDmc(a, dmcEnd) ==
    LET pend == a.dmcIrqPending \/ dmcEnd
    IN  [a EXCEPT !.dmcIrqPending = pend, !.DmcIRQ = IF pend THEN TRUE ELSE @]

\* The frame sequencer reaching step 3 in 4-step mode with IRQ-inhibit clear
\* (frameStep3) asserts the frame IRQ.
APUClockFrame(a, frameStep3) ==
    [a EXCEPT !.FrameIRQ = IF frameStep3 THEN TRUE ELSE @]

\* APU.CPURead($4015): a set DMC IRQ flag is cleared with the channel's.
APUCPURead(a) ==
    IF a.DmcIRQ THEN [a EXCEPT !.DmcIRQ = FALSE, !.dmcIrqPending = FALSE] ELSE a

\* $4015 read: the frame IRQ is cleared by the read.
APUStatusReadFrame(a) == [a EXCEPT !.FrameIRQ = FALSE]

\* APU.CPUWrite($4015): clears the DMC IRQ flag.
APUCPUWrite(a) == [a EXCEPT !.DmcIRQ = FALSE, !.dmcIrqPending = FALSE]

-----------------------------------------------------------------------------
(* Mapper interrupt (mmc3.clockIRQ, CPUMapWrite, IRQPending; uxrom) *)

NoMapper == [irqEnabled |-> FALSE, irqPending |-> FALSE]

\* clockIRQ when the scanline counter is 0 after the reload/decrement (zero).
MapperClockIRQ(m, zero) ==
    [m EXCEPT !.irqPending = IF zero /\ m.irqEnabled THEN TRUE ELSE @]

\* mmc3.CPUMapWrite, $E000-$FFFF: even disables and acknowledges, odd enables.
MapperIRQWrite(m, addr) ==
    IF addr % 2 = 0
    THEN [m EXCEPT !.irqEnabled = FALSE, !.irqPending = FALSE]
    ELSE [m EXCEPT !.irqEnabled = TRUE]

\* Mapper.IRQPending: the MMC3 flag; uxrom answers false.
MapperIRQPending(cart, m) == cart = "mmc3" /\ m.irqPending

-----------------------------------------------------------------------------
(* CPU interrupt entry (CPU.Reset, CPU.NMI, CPU.IRQ).  Of the registers   *)
(* this view keeps c.Cycles and flag I of c.P.                             *)

\* cpu.New: the zero value.
NewCPU == [Cycles |-> 0, I |-> FALSE]

ResetCycles == 8

NMICycles == 8

IRQCycles == 7

\* CPU.Reset: setFlag('I', true), Cycles = 8.
CPUReset(c) == [c EXCEPT !.I = TRUE, !.Cycles = ResetCycles]

\* CPU.NMI: runs the sequence at once, whatever c.Cycles is.
CPUNMI(c) == [c EXCEPT !.I = TRUE, !.Cycles = NMICycles]

\* Does CPU.IRQ enter the sequence?  Only when I = 0 and only between
\* instructions.
CPUIRQTaken(c) == ~c.I /\ c.Cycles = 0

CPUIRQUnmasked(c) ==
    IF c.Cycles = 0 THEN [c EXCEPT !.I = TRUE, !.Cycles = IRQCycles] ELSE c

\* CPU.IRQ: the sequence is NMI's with the $FFFE vector, 7 cycles.
CPUIRQ(c) ==
    IF CPUIRQTaken(c) THEN [c EXCEPT !.I = TRUE, !.Cycles = IRQCycles] ELSE c

-----------------------------------------------------------------------------
(* Bus (bus/bus.go) *)

NoSync ==
    [dmc |-> FALSE, frame |-> FALSE, mapper |-> FALSE, line |-> FALSE,
     I |-> FALSE, Cycles |-> 0]

NoAccess == [kind |-> "none", addr |-> 0]

\* Probes.  trace: the component steps of the last tick, in execution order.
\* ticks: Bus.Clock calls.  ppuDots, apuClocks, mapperClocks, cpuClocks: the
\* times each component advanced.  vblRises: 0->1 transitions of the vblank
\* flag made with NMI-enable set.  nmiEntered, irqEntered: interrupt
\* sequences entered.  sync: the IRQ sources and the line at the last
\* CPU-sync point, with flag I and c.Cycles as CPU.IRQ found them.
\* access: the bus access of the instruction fetched in the last tick.
\* op: the last host operation.  base: SystemClocks when the probes were
\* started (construction, or the last load of a state).  pend0: the NMI latch
\* at that moment.  skips: odd-frame skips performed.  held: CPU-sync points
\* at which the IRQ line was asserted and no sequence was entered.
NewObs ==
    [trace |-> <<>>, ticks |-> 0, ppuDots |-> 0, apuClocks |-> 0,
     mapperClocks |-> 0, cpuClocks |-> 0, vblRises |-> 0, nmiEntered |-> 0,
     irqEntered |-> 0, fetches |-> 0, sync |-> NoSync,
     access |-> NoAccess, op |-> "new", base |-> 0, pend0 |-> 0, skips |-> 0,
     held |-> 0]

\* bus.New.
NewBus ==
    [SystemClocks |-> 0, cart |-> "none", mapper |-> NoMapper,
     ppu |-> NewPPU, apu |-> NewAPU, cpu |-> NewCPU,
     joy1 |-> NewController, joy2 |-> NewController, obs |-> NewObs]

\* Does the cartridge's CPUMapRead / CPUMapWrite handle addr?  uxrom and
\* mmc3 take $8000-$FFFF, mmc3 also its PRG-RAM at $6000-$7FFF.
MapperHandles(cart, addr) ==
    \/ cart = "uxrom" /\ addr >= 32768
    \/ cart = "mmc3" /\ addr >= 24576

\* Bus.Read: the emulator after the read.
BusRead(b, addr) ==
    IF MapperHandles(b.cart, addr) THEN b
    ELSE CASE addr >= 8192 /\ addr <= 16383 ->
                [b EXCEPT !.ppu = PPUCPURead(@, addr % 8)]
           [] addr = 16406 -> [b EXCEPT !.joy1 = ControllerReadNext(@)]
           [] addr = 16407 -> [b EXCEPT !.joy2 = ControllerReadNext(@)]
           [] addr = 16405 ->
                [b EXCEPT !.apu = APUStatusReadFrame(APUCPURead(@))]
           [] OTHER -> b

\* The byte that fills the 256-byte page an OAM DMA copies: 0 in RAM, which
\* nothing here writes, and $F0 in the game's page $80 (sprites off screen).
DmaPageByte(page) == IF page = 128 THEN 240 ELSE 0

\* Bus.Write: the emulator after the write.  $4014 is the OAM DMA: 256
\* Bus.Read calls and PPU.DoOAMDMA, all inside the write.
BusWrite(b, addr, data) ==
    IF MapperHandles(b.cart, addr)
    THEN IF b.cart = "mmc3" /\ addr >= 57344
         THEN [b EXCEPT !.mapper = MapperIRQWrite(@, addr)]
         ELSE b
    ELSE CASE addr >= 8192 /\ addr <= 16383 ->
                [b EXCEPT !.ppu = PPUCPUWrite(@, addr % 8, data)]
           [] addr = 16406 ->
                [b EXCEPT !.joy1 = ControllerWrite(@, data),
                          !.joy2 = ControllerWrite(@, data)]
           [] addr = 16405 -> [b EXCEPT !.apu = APUCPUWrite(@)]
           [] addr = 16404 ->
                [b EXCEPT !.ppu.oamY = IF b.cart = "none" THEN 0
                                       ELSE DmaPageByte(data)]
           [] OTHER -> b

\* Bus.LoadCartridge: connect the cartridge (a fresh mapper), reset the CPU.
LoadCartridgeOp(b, kind) ==
    [b EXCEPT !.cart = kind, !.mapper = NoMapper, !.cpu = CPUReset(@),
              !.obs.op = "loadcart", !.obs.access = NoAccess]

\* Bus.SetController1State.
SetController1State(b, buttons) ==
    [b EXCEPT !.joy1 = SetButtons(@, buttons), !.obs.op = "buttons",
              !.obs.access = NoAccess]

\* The byte Bus.Read returns from a controller port.
JoyReadData(b, addr) ==
    IF addr = 16406 THEN ControllerReadValue(b.joy1)
    ELSE ControllerReadValue(b.joy2)

\* Bus.SaveState: the State written to the file.  The controllers are not
\* part of it.
SaveStateOp(b) ==
    [SystemClocks |-> b.SystemClocks, CPU |-> b.cpu, PPU |-> b.ppu,
     APU |-> b.apu,
     Cartridge |-> IF b.cart # "none" THEN b.mapper ELSE NoMapper]

\* Bus.LoadState: overwrite the saved components; the mapper's only when a
\* cartridge is present.  The probes start afresh.
LoadStateOp(b, s) ==
    [b EXCEPT !.SystemClocks = s.SystemClocks, !.cpu = s.CPU, !.ppu = s.PPU,
              !.apu = s.APU,
              !.mapper = IF b.cart = "mmc3" THEN s.Cartridge ELSE @,
              !.obs = [NewObs EXCEPT !.op = "load", !.base = s.SystemClocks,
                                     !.pend0 = B2N(s.PPU.NMI)]]

Tag(b, t) == [b EXCEPT !.obs.trace = Append(@, t)]

\* b.PPU.Clock().  a12Zero: this dot's pattern fetch clocks the MMC3 scanline
\* counter to 0 (PPURead -> PPUMapRead -> checkA12 -> clockIRQ).
BusPPUClock(b, in) ==
    LET p == PPUClock(b.ppu, b.cart # "none", in.opaque)
        moved == <<p.Scanline, p.Cycle>> # <<b.ppu.Scanline, b.ppu.Cycle>>
        rise == Bit(b.ppu.Status, 7) = 0 /\ Bit(p.Status, 7) = 1
                  /\ Bit(p.Ctrl, 7) = 1
    IN  Tag([b EXCEPT !.ppu = p,
                      !.mapper = MapperClockIRQ(@, in.a12Zero),
                      !.obs.skips = @ + B2N(b.cart # "none" /\ OddFrameSkip(b.ppu)),
                      !.obs.ppuDots = @ + B2N(moved),
                      !.obs.vblRises = @ + B2N(rise)], "ppu")

\* b.APU.Clock().
BusAPUClock(b, in) ==
    Tag([b EXCEPT !.apu = APUClockFrame(APUClockDmc(@, in.dmcEnd), in.frameStep3),
                  !.obs.apuClocks = @ + 1], "apu")

\* b.cart.Mapper.Clock(), when a cartridge is present.
BusMapperClock(b) ==
    IF b.cart # "none"
    THEN Tag([b EXCEPT !.obs.mapperClocks = @ + 1], "mapper")
    ELSE b

\* if b.PPU.NMI { b.PPU.NMI = false; b.cpu.NMI() }
BusNMISample(b) ==
    IF b.ppu.NMI
    THEN Tag([b EXCEPT !.ppu.NMI = FALSE, !.cpu = CPUNMI(@),
                       !.obs.nmiEntered = @ + 1], "nmi")
    ELSE Tag(b, "nmi")

BusIRQLineNoMapper(b) == b.apu.DmcIRQ \/ b.apu.FrameIRQ

\* b.APU.DmcIRQ || b.APU.FrameIRQ || cartIRQ
BusIRQLine(b) ==
    b.apu.DmcIRQ \/ b.apu.FrameIRQ \/ MapperIRQPending(b.cart, b.mapper)

\* if line { b.cpu.IRQ() }
BusIRQSample(b) ==
    LET line == BusIRQLine(b)
        c == IF line THEN CPUIRQ(b.cpu) ELSE b.cpu
        taken == c # b.cpu
        sync == [dmc |-> b.apu.DmcIRQ, frame |-> b.apu.FrameIRQ,
                 mapper |-> b.mapper.irqPending, line |-> line,
                 I |-> b.cpu.I, Cycles |-> b.cpu.Cycles]
    IN  Tag([b EXCEPT !.cpu = c,
                      !.obs.sync = sync,
                      !.obs.held = @ + B2N(line /\ ~taken),
                      !.obs.irqEntered = @ + B2N(taken)], "irq")

\* An instruction as the program presents it: the opcode and the bus access
\* its operand makes (addr, and for a store the value of A in data).
\* Operate(): the effect of the instruction on the emulator.
Operate(b, ins) ==
    CASE OpOperate(ins.opcode) = "sei" -> [b EXCEPT !.cpu.I = TRUE]
      [] OpOperate(ins.opcode) = "cli" -> [b EXCEPT !.cpu.I = FALSE]
      [] OpOperate(ins.opcode) = "lda" -> BusRead(b, ins.addr)
      [] OpOperate(ins.opcode) = "sta" -> BusWrite(b, ins.addr, ins.data)
      [] OTHER -> b

AccessOf(ins) ==
    CASE OpOperate(ins.opcode) = "lda" -> [kind |-> "read", addr |-> ins.addr]
      [] OpOperate(ins.opcode) = "sta" -> [kind |-> "write", addr |-> ins.addr]
      [] OTHER -> NoAccess

\* b.cpu.Clock(): at c.Cycles = 0 fetch and run ins; then c.Cycles--.
BusCPUClock(b, ins) ==
    LET c == IF b.cpu.Cycles = 0
             THEN [Operate(b, ins) EXCEPT
                      !.cpu.Cycles = InstrCycles(ins.opcode, 0, 0, 0, 0, 0, 0, 0),
                      !.obs.fetches = @ + 1,
                      !.obs.access = AccessOf(ins)]
             ELSE [b EXCEPT !.obs.access = NoAccess]
    IN  Tag([c EXCEPT !.cpu.Cycles = @ - 1, !.obs.cpuClocks = @ + 1], "cpu")

BusClockCpuFirst(b, in) ==
    LET b0 == [b EXCEPT !.obs.trace = <<>>, !.obs.ticks = @ + 1,
                        !.obs.op = "clock"]
        b1 == BusPPUClock(b0, in)
        b2 == IF b.SystemClocks % 3 = 0
              THEN BusIRQSample(BusNMISample(
                     BusMapperClock(BusAPUClock(BusCPUClock(b1, in.ins), in))))
              ELSE [b1 EXCEPT !.obs.access = NoAccess]
    IN  [b2 EXCEPT !.SystemClocks = @ + 1]

BusClockEveryTick(b, in) ==
    LET b0 == [b EXCEPT !.obs.trace = <<>>, !.obs.ticks = @ + 1,
                        !.obs.op = "clock"]
        b1 == BusPPUClock(b0, in)
        b2 == BusCPUClock(BusIRQSample(BusNMISample(
                     BusMapperClock(BusAPUClock(b1, in)))), in.ins)
    IN  [b2 EXCEPT !.SystemClocks = @ + 1]

\* Bus.Clock.
BusClock(b, in) ==
    LET b0 == [b EXCEPT !.obs.trace = <<>>, !.obs.ticks = @ + 1,
                        !.obs.op = "clock"]
        b1 == BusPPUClock(b0, in)
        b2 == IF b.SystemClocks % 3 = 0
              THEN BusCPUClock(BusIRQSample(BusNMISample(
                     BusMapperClock(BusAPUClock(b1, in)))), in.ins)
              ELSE [b1 EXCEPT !.obs.access = NoAccess]
    IN  [b2 EXCEPT !.SystemClocks = @ + 1]

-----------------------------------------------------------------------------
(* Values of the variables a specification does not use *)

NoFile == [present |-> FALSE]

ExIdle == [phase |-> "idle"]

\* Button states the host presents: nothing held; A, Select, Up and Left
\* held (reads 1,0,1,0,1,0,1,0); B alone held.
ButtonPatterns ==
    { [i \in 0..7 |-> FALSE], [i \in 0..7 |-> i % 2 = 0], [i \in 0..7 |-> i = 1] }

\* The controller-protocol observer.  phase: "none" before the first strobe,
\* "high" while the last write had bit 0 = 1, "low" after a 1 -> 0 strobe.
\* latched: the buttons held when the strobe fell.  reads / hiReads: reads
\* made in the low / high phase.  last: the byte the last read returned;
\* cur, idx, idxAfter: the buttons and the read index before and after it.
JlogNew ==
    [phase |-> "none", latched |-> [i \in 0..7 |-> FALSE], reads |-> 0,
     hiReads |-> 0, last |-> 0, cur |-> [i \in 0..7 |-> FALSE], idx |-> 0,
     idxAfter |-> 0]

-----------------------------------------------------------------------------
(* SpecCtrl: the controller port as the host and the program drive it *)

MaxReads == 10

CtrlInit ==
    /\ nes = NewBus
    /\ steps = 0
    /\ disk = NoFile
    /\ ex = ExIdle
    /\ jlog = JlogNew

\* The host sets the buttons of controller 1 (display.Update, the gRPC server).
CtrlSetButtons ==
    /\ \E p \in ButtonPatterns :
         /\ p # nes.joy1.buttons
         /\ nes' = SetController1State(nes, p)
    /\ UNCHANGED <<steps, disk, ex, jlog>>

\* The program writes $4016.
CtrlWrite ==
    /\ \E d \in {0, 1} :
         /\ nes' = [BusWrite(nes, 16406, d) EXCEPT !.obs.op = "write"]
         /\ jlog' = IF d % 2 = 1
                    THEN [jlog EXCEPT !.phase = "high", !.reads = 0, !.hiReads = 0]
                    ELSE IF jlog.phase = "high"
                         THEN [jlog EXCEPT !.phase = "low", !.reads = 0,
                                           !.latched = nes.joy1.buttons]
                         ELSE jlog
    /\ UNCHANGED <<steps, disk, ex>>

\* The program reads $4016.
CtrlRead ==
    /\ jlog.reads < MaxReads
    /\ jlog.hiReads < MaxReads
    /\ nes' = [BusRead(nes, 16406) EXCEPT !.obs.op = "read"]
    /\ jlog' = [jlog EXCEPT
                  !.reads = IF jlog.phase = "low" THEN @ + 1 ELSE @,
                  !.hiReads = IF jlog.phase = "high" THEN @ + 1 ELSE @,
                  !.last = JoyReadData(nes, 16406),
                  !.cur = nes.joy1.buttons,
                  !.idx = nes.joy1.index,
                  !.idxAfter = nes'.joy1.index]
    /\ UNCHANGED <<steps, disk, ex>>

CtrlNext == CtrlSetButtons \/ CtrlWrite \/ CtrlRead

SpecCtrl == CtrlInit /\ [][CtrlNext]_vars

\* C9 (as claimed): after a write with bit 0 = 1 followed by a write with
\* bit 0 = 0, the k-th read (k = 1..8) returns the k-th button, in the order
\* A, B, Select, Start, Up, Down, Left, Right, of the buttons latched when
\* the strobe fell, and the ninth and every later read returns 1.
C9_LatchedOrder ==
    (jlog.phase = "low" /\ jlog.reads >= 1) =>
        jlog.last = IF jlog.reads <= 8
                    THEN B2N(jlog.latched[jlog.reads - 1])
                    ELSE 1

\* C10: while the strobe is high every read returns the current state of
\* button A and leaves the read index where it was, at 0, however many
\* reads are made.
C10_StrobeHigh ==
    /\ nes.joy1.strobe = 1 => nes.joy1.index = 0
    /\ (jlog.phase = "high" /\ jlog.hiReads >= 1) =>
          /\ jlog.last = B2N(jlog.cur[0])
          /\ jlog.idx = 0
          /\ jlog.idxAfter = jlog.idx

\* C10's case: three or more reads under a high strobe with A held.
C10_Witness ==
    /\ jlog.phase = "high"
    /\ jlog.hiReads >= 3
    /\ jlog.last = 1
    /\ jlog.cur[0]
    /\ nes.joy1.strobe = 1

-----------------------------------------------------------------------------
(* SpecCpu: CPU.Clock on one instruction, from its fetch to the next fetch *)

MaxIndex == 1

\* Operand low bytes: 0, a forward branch of 16, and 255 (a negative branch
\* of 1; a page cross as soon as an index register is not 0).
OperandBytes == {0, 16, 255}

\* Fetch addresses: the start of a page and near its end ($8000, $80F0).
FetchAddrs == {32768, 33008}

\* Status bytes: all flags clear; N, V, Z and C set.
StatusBytes == {0, 195}

CpuInit ==
    /\ nes = NewBus
    /\ steps = 0
    /\ disk = NoFile
    /\ jlog = JlogNew
    /\ \E op \in 0..255, lo \in OperandBytes, X \in 0..MaxIndex,
          Y \in 0..MaxIndex, pc \in FetchAddrs, P \in StatusBytes :
         ex = [phase |-> "boundary", op |-> op, lo |-> lo, X |-> X, Y |-> Y,
               pc |-> pc, P |-> P, Cycles |-> 0, ticks |-> 0]

\* CPU.Clock with c.Cycles = 0: fetch the instruction, charge its cycles,
\* then c.Cycles--.
CpuFetch ==
    /\ ex.phase = "boundary"
    /\ ex.Cycles = 0
    /\ ex' = [ex EXCEPT !.phase = "run",
                        !.Cycles = InstrCycles(ex.op, ex.pc, ex.lo, 0, 0,
                                               ex.X, ex.Y, ex.P) - 1,
                        !.ticks = 1]
    /\ UNCHANGED <<nes, steps, disk, jlog>>

\* CPU.Clock with c.Cycles > 0: c.Cycles--.
CpuBurn ==
    /\ ex.phase = "run"
    /\ ex.Cycles > 0
    /\ ex' = [ex EXCEPT !.Cycles = @ - 1, !.ticks = @ + 1]
    /\ UNCHANGED <<nes, steps, disk, jlog>>

\* c.Cycles is 0 again: the next CPU.Clock fetches the next instruction.
CpuNextFetch ==
    /\ ex.phase = "run"
    /\ ex.Cycles = 0
    /\ ex' = [ex EXCEPT !.phase = "done"]
    /\ UNCHANGED <<nes, steps, disk, jlog>>

CpuNext == CpuFetch \/ CpuBurn \/ CpuNextFetch

SpecCpu == CpuInit /\ [][CpuNext]_vars

\* The operations that take the page-cross cycle: the reads.  Stores and
\* read-modify-write operations always pay it in their base count.
TakesPageCrossPenalty(operate) ==
    operate \in {"lda", "ldx", "ldy", "eor", "and", "ora", "adc", "sbc",
                 "cmp", "lax", "las"}

\* The page-cross penalties the documentation allows an instruction: none
\* without a page cross in abs,X / abs,Y / (ind),Y; one with it for a read;
\* for the other operations either reading of "instructions that take the
\* penalty" is accepted.
PageCrossPenalties(op, lo, X, Y) ==
    IF AddrModeReturn(OpAddrMode(op), lo, 0, 0, X, Y) = 0 THEN {0}
    ELSE IF TakesPageCrossPenalty(OpOperate(op)) THEN {1}
    ELSE {0, 1}

\* Base cycles plus the documented penalties.
DocumentedCycles(op, pc, lo, X, Y, P) ==
    { OpCycles(op) + pen
        + (IF BranchTaken(OpOperate(op), P)
           THEN 1 + (IF (BranchTarget(pc, lo) \div 256) # (NextPC(pc) \div 256)
                     THEN 1 ELSE 0)
           ELSE 0) : pen \in PageCrossPenalties(op, lo, X, Y) }

\* C7 (as claimed): the CPU clock ticks from an instruction's fetch to the
\* next fetch equal the opcode's base cycles plus the documented penalties
\* only (page cross in abs,X / abs,Y / (ind),Y on the instructions that take
\* it, taken branch, taken branch crossing a page), and are never zero.
C7_DocumentedCycles ==
    ex.phase = "done" =>
        /\ ex.ticks \in DocumentedCycles(ex.op, ex.pc, ex.lo, ex.X, ex.Y, ex.P)
        /\ ex.ticks > 0

-----------------------------------------------------------------------------
(* Spec: a session of the emulator, tick by tick *)

MaxSteps == 11

Nop == [opcode |-> 234, addr |-> 0, data |-> 0]

\* The instructions the game presents at a fetch: NOP, SEI, CLI, LDA $2002,
\* LDA $4015, STA $2000 (A = $80 and A = 0), STA $4015, STA $E000, STA $E001.
Program ==
    { Nop,
      [opcode |-> 120, addr |-> 0, data |-> 0],
      [opcode |-> 88, addr |-> 0, data |-> 0],
      [opcode |-> 173, addr |-> 8194, data |-> 0],
      [opcode |-> 173, addr |-> 16405, data |-> 0],
      [opcode |-> 141, addr |-> 8192, data |-> 128],
      [opcode |-> 141, addr |-> 8192, data |-> 0],
      [opcode |-> 141, addr |-> 16405, data |-> 0],
      [opcode |-> 141, addr |-> 57344, data |-> 0],
      [opcode |-> 141, addr |-> 57345, data |-> 0] }

\* A saved State taken on scanline 241, dot 0, one dot before vblank.
VBlankFile(clocks, ctrl, cycles, i) ==
    [SystemClocks |-> clocks,
     CPU |-> [Cycles |-> cycles, I |-> i],
     PPU |-> [NewPPU EXCEPT !.Scanline = VBlankScanline, !.Ctrl = ctrl],
     APU |-> NewAPU,
     Cartridge |-> NoMapper]

\* A saved State taken on a visible scanline of an MMC3 game with its
\* scanline IRQ enabled and the background on.
RenderFile(i) ==
    [SystemClocks |-> 3414,
     CPU |-> [Cycles |-> 1, I |-> i],
     PPU |-> [NewPPU EXCEPT !.Scanline = 10, !.Cycle = 4, !.Mask = 8],
     APU |-> NewAPU,
     Cartridge |-> [irqEnabled |-> TRUE, irqPending |-> FALSE]]

\* The state files on the host's disk, written by earlier sessions.
SaveFiles ==
    { VBlankFile(82181, 128, 0, FALSE), VBlankFile(82182, 128, 1, TRUE),
      VBlankFile(82183, 0, 0, FALSE), RenderFile(FALSE), RenderFile(TRUE) }

\* Does this dot fetch a background pattern byte (PPU.Clock, cases 4 and 6)
\* from an MMC3 cartridge, so that checkA12 can clock the scanline counter?
PatternFetchDot(b) ==
    /\ b.cart = "mmc3"
    /\ b.ppu.Scanline >= -1 /\ b.ppu.Scanline < 240
    /\ \/ b.ppu.Cycle >= 1 /\ b.ppu.Cycle < 258
       \/ b.ppu.Cycle >= 322 /\ b.ppu.Cycle < 338
    /\ (b.ppu.Cycle - 1) % 8 \in {4, 6}

\* What the rest of the machine feeds one Bus.Clock: the DMC reaching the
\* end of its sample and the frame sequencer its IRQ step (CPU ticks only),
\* the MMC3 counter reaching 0 (pattern-fetch dots only), and the
\* instruction at PC (used when the CPU fetches).
ClockInputs(b) ==
    { in \in [dmcEnd : BOOLEAN, frameStep3 : BOOLEAN, a12Zero : BOOLEAN,
              opaque : BOOLEAN, ins : Program] :
        /\ (in.dmcEnd \/ in.frameStep3) => b.SystemClocks % 3 = 0
        /\ in.opaque => PPUCanOverlap(b.ppu)
        /\ in.a12Zero => PatternFetchDot(b)
        /\ in.ins # Nop => (b.SystemClocks % 3 = 0 /\ b.cpu.Cycles = 0) }

Init ==
    /\ nes = NewBus
    /\ steps = 0
    /\ disk = NoFile
    /\ ex = ExIdle
    /\ jlog = JlogNew

LoadCartridge ==
    /\ steps < MaxSteps
    /\ \E kind \in {"uxrom", "mmc3"} : nes' = LoadCartridgeOp(nes, kind)
    /\ steps' = steps + 1
    /\ UNCHANGED <<disk, ex, jlog>>

Clock ==
    /\ steps < MaxSteps
    /\ \E in \in ClockInputs(nes) : nes' = BusClock(nes, in)
    /\ steps' = steps + 1
    /\ UNCHANGED <<disk, ex, jlog>>

LoadState ==
    /\ steps < MaxSteps
    /\ \E f \in SaveFiles : nes' = LoadStateOp(nes, f)
    /\ steps' = steps + 1
    /\ UNCHANGED <<disk, ex, jlog>>

Next == LoadCartridge \/ Clock \/ LoadState

Spec == Init /\ [][Next]_vars

-----------------------------------------------------------------------------
(* Properties of Spec *)

\* The step is one Bus.Clock.
IsTick == nes'.obs.ticks = nes.obs.ticks + 1

\* The tick is one on which the CPU runs.
CpuTick == nes.SystemClocks % 3 = 0

D(new, old) == new - old

\* A position of the PPU as a dot number within the frame, counted from the
\* pre-render scanline.
DotIndex(p) == (p.Scanline + 1) * (LastCycle + 1) + p.Cycle

FrameTicks == 89342

\* The PPU went from p to q by one dot (by two over the skipped dot of an
\* odd frame).
OneDot(p, q) ==
    DotIndex(q) = (DotIndex(p) + (IF OddFrameSkip(p) THEN 2 ELSE 1)) % FrameTicks

\* APU and CPU advance by one CPU cycle on the ticks whose count before the
\* increment is divisible by 3 and on no other; since the probes started
\* they were clocked ceil(N/3) times of the N ticks counted by SystemClocks.
CpuRate ==
    /\ nes'.SystemClocks = nes.SystemClocks + 1
    /\ D(nes'.obs.apuClocks, nes.obs.apuClocks) = B2N(CpuTick)
    /\ D(nes'.obs.cpuClocks, nes.obs.cpuClocks) = B2N(CpuTick)
    /\ nes'.obs.cpuClocks = CeilDiv3(nes'.SystemClocks) - CeilDiv3(nes'.obs.base)
    /\ nes'.obs.apuClocks = nes'.obs.cpuClocks
    /\ nes'.obs.ticks = nes'.SystemClocks - nes'.obs.base

\* C1 (as claimed): on every Bus tick the PPU advances exactly one dot and
\* the global dot counter increases by one; APU, mapper and CPU advance one
\* CPU cycle exactly on the ticks whose dot count is divisible by 3, so
\* after N ticks they have been clocked ceil(N/3) times.
C1_EveryTick ==
    [][IsTick =>
         /\ OneDot(nes.ppu, nes'.ppu)
         /\ D(nes'.obs.ppuDots, nes.obs.ppuDots) = 1
         /\ D(nes'.obs.mapperClocks, nes.obs.mapperClocks) = B2N(CpuTick)
         /\ CpuRate]_vars

\* C1 (amended): on every Bus tick made with a cartridge loaded the PPU
\* advances exactly one dot, and without a cartridge it stays where it is;
\* the tick counter increases by one on every tick; APU and CPU advance one
\* CPU cycle exactly on the ticks whose count is divisible by 3, the mapper
\* on those of them made with a cartridge loaded; APU and CPU have been
\* clocked ceil(N/3) times after N ticks.
C1_TickWithCartridge ==
    [][IsTick =>
         /\ IF nes.cart # "none"
            THEN /\ OneDot(nes.ppu, nes'.ppu)
                 /\ D(nes'.obs.ppuDots, nes.obs.ppuDots) = 1
                 /\ D(nes'.obs.mapperClocks, nes.obs.mapperClocks) = B2N(CpuTick)
            ELSE /\ DotIndex(nes'.ppu) = DotIndex(nes.ppu)
                 /\ D(nes'.obs.ppuDots, nes.obs.ppuDots) = 0
                 /\ D(nes'.obs.mapperClocks, nes.obs.mapperClocks) = 0
         /\ CpuRate]_vars

\* C1's case: seven ticks since power-on with a cartridge in: seven dots,
\* and ceil(7/3) = 3 cycles of CPU, APU and mapper.
C1_Witness ==
    /\ nes.cart # "none"
    /\ nes.obs.base = 0
    /\ nes.obs.ticks = 7
    /\ nes.obs.ppuDots = 7
    /\ nes.obs.cpuClocks = 3
    /\ nes.obs.apuClocks = 3
    /\ nes.obs.mapperClocks = 3

\* The component steps of a tick on which the CPU runs.
SyncOrder(cart) ==
    IF cart # "none"
    THEN <<"ppu", "apu", "mapper", "nmi", "irq", "cpu">>
    ELSE <<"ppu", "apu", "nmi", "irq", "cpu">>

\* C2: on a tick on which the CPU runs the steps happen in the order PPU
\* dot, APU clock, mapper clock, NMI sampling, IRQ sampling, CPU clock; so
\* an NMI latched by that tick's PPU dot is taken in that tick before the
\* CPU clock (which then burns the first cycle of the sequence), and an IRQ
\* source raised by that tick's PPU dot or APU clock is seen asserted by
\* that tick's IRQ sampling.  On the other ticks only the PPU runs.
C2_FixedOrder ==
    [][IsTick =>
         IF CpuTick
         THEN /\ nes'.obs.trace = SyncOrder(nes.cart)
              /\ nes'.obs.vblRises > nes.obs.vblRises =>
                    /\ nes'.obs.nmiEntered = nes.obs.nmiEntered + 1
                    /\ nes'.cpu.Cycles = NMICycles - 1
              /\ (nes'.apu.DmcIRQ /\ ~nes.apu.DmcIRQ) => nes'.obs.sync.dmc
              /\ (nes'.apu.FrameIRQ /\ ~nes.apu.FrameIRQ) => nes'.obs.sync.frame
              /\ (nes'.mapper.irqPending /\ ~nes.mapper.irqPending) =>
                    nes'.obs.sync.mapper
         ELSE nes'.obs.trace = <<"ppu">>]_vars

\* C2's case: a CPU tick whose PPU dot set vblank with NMI enabled: all six
\* steps ran and the NMI was taken in the same tick.
C2_Witness ==
    /\ nes.obs.op = "clock"
    /\ nes.obs.trace = <<"ppu", "apu", "mapper", "nmi", "irq", "cpu">>
    /\ nes.ppu.Scanline = VBlankScanline /\ nes.ppu.Cycle = 2
    /\ nes.obs.vblRises = 1
    /\ nes.obs.nmiEntered = 1
    /\ nes.cpu.Cycles = NMICycles - 1

\* C3: NMI is edge-triggered.  Each 0 -> 1 transition of the vblank flag
\* made with NMI-enable set latches one request; every request is delivered
\* once, by one entry to the NMI sequence, which clears the latch; no NMI
\* sequence is entered without a latched request.
C3_NmiEdge ==
    [][/\ nes'.obs.vblRises + nes'.obs.pend0
            = nes'.obs.nmiEntered + B2N(nes'.ppu.NMI)
       /\ IsTick =>
            /\ D(nes'.obs.nmiEntered, nes.obs.nmiEntered) \in {0, 1}
            /\ nes'.obs.nmiEntered > nes.obs.nmiEntered =>
                  /\ ~nes'.ppu.NMI
                  /\ nes.ppu.NMI \/ nes'.obs.vblRises > nes.obs.vblRises
            /\ (nes'.ppu.NMI /\ ~nes.ppu.NMI) =>
                  nes'.obs.vblRises = nes.obs.vblRises + 1]_vars

\* C3's case: vblank rose with NMI enabled, the NMI was delivered, and three
\* dots later, vblank and NMI-enable still set, there was no second one.
C3_Witness ==
    /\ nes.obs.vblRises = 1
    /\ nes.obs.nmiEntered = 1
    /\ ~nes.ppu.NMI
    /\ Bit(nes.ppu.Status, 7) = 1
    /\ Bit(nes.ppu.Ctrl, 7) = 1
    /\ nes.ppu.Scanline = VBlankScanline /\ nes.ppu.Cycle >= 5

\* The access of the instruction fetched in this tick clears the source.
ClearsDmc(a) == a.addr = 16405 /\ a.kind \in {"read", "write"}

ClearsFrame(a) == a.addr = 16405 /\ a.kind = "read"

ClearsMapper(a) == a.kind = "write" /\ a.addr >= 57344 /\ a.addr % 2 = 0

\* C4: IRQ is level-triggered.  At every CPU-sync point the line presented
\* to the CPU is the OR of APU frame IRQ, DMC IRQ and mapper IRQ; entering
\* the IRQ sequence clears no source; a source goes from asserted to clear
\* only in a tick whose instruction reads or writes the register that
\* clears it ($4015 for the APU flags, an even address in $E000-$FFFF for
\* the MMC3).
C4_IrqLevel ==
    [][IsTick =>
         /\ CpuTick =>
              /\ nes'.obs.sync.line = (\/ nes'.obs.sync.frame
                                       \/ nes'.obs.sync.dmc
                                       \/ nes'.obs.sync.mapper)
              /\ nes'.obs.irqEntered > nes.obs.irqEntered =>
                    /\ nes'.obs.sync.line
                    /\ nes'.apu.FrameIRQ = nes'.obs.sync.frame
                    /\ nes'.apu.DmcIRQ = nes'.obs.sync.dmc
                    /\ nes'.mapper.irqPending = nes'.obs.sync.mapper
         /\ (nes.apu.DmcIRQ /\ ~nes'.apu.DmcIRQ) => ClearsDmc(nes'.obs.access)
         /\ (nes.apu.FrameIRQ /\ ~nes'.apu.FrameIRQ) =>
               ClearsFrame(nes'.obs.access)
         /\ (nes.mapper.irqPending /\ ~nes'.mapper.irqPending) =>
               ClearsMapper(nes'.obs.access)]_vars

\* C4's case: the MMC3 raised its IRQ, the CPU entered the IRQ sequence, and
\* at the next CPU-sync point the source and the line were still asserted.
C4_Witness ==
    /\ nes.obs.irqEntered = 1
    /\ nes.obs.sync.mapper /\ ~nes.obs.sync.dmc /\ ~nes.obs.sync.frame
    /\ nes.obs.sync.line
    /\ nes.obs.sync.I
    /\ nes.mapper.irqPending
    /\ nes.cpu.Cycles = IRQCycles - 2

\* C5: the CPU enters an IRQ sequence only when the line is asserted, flag I
\* is 0 and no instruction is in progress (c.Cycles = 0); with I = 1 or in
\* mid-instruction an asserted line enters nothing.
C5_IrqGate ==
    [][(IsTick /\ CpuTick) =>
         /\ D(nes'.obs.irqEntered, nes.obs.irqEntered) \in {0, 1}
         /\ nes'.obs.irqEntered > nes.obs.irqEntered =>
               /\ nes'.obs.sync.line
               /\ ~nes'.obs.sync.I
               /\ nes'.obs.sync.Cycles = 0
               /\ nes'.cpu.I
               /\ nes'.cpu.Cycles = IRQCycles - 1
         /\ (nes'.obs.sync.line /\ (nes'.obs.sync.I \/ nes'.obs.sync.Cycles > 0)) =>
               nes'.obs.irqEntered = nes.obs.irqEntered]_vars

\* C5's case: the DMC IRQ was asserted while an instruction was in progress
\* and entered nothing; at the instruction boundary, I being 0, the sequence
\* was entered, once.
C5_Witness ==
    /\ nes.obs.irqEntered = 1
    /\ nes.obs.sync.dmc
    /\ ~nes.obs.sync.I
    /\ nes.obs.sync.Cycles = 0
    /\ nes.obs.held >= 1
    /\ nes.cpu.I
    /\ nes.cpu.Cycles = IRQCycles - 1

\* The PPU is about to process scanline 241, dot 1.
AtVBlankDot(b) ==
    b.cart # "none" /\ b.ppu.Scanline = VBlankScanline /\ b.ppu.Cycle = 1

\* C14: the tick that processes scanline 241 dot 1 sets the vblank flag (a
\* $2002 read by the CPU in that very tick may clear it again) and raises
\* NMI exactly when PPUCTRL bit 7 is set; and while an NMI is raised no
\* instruction is fetched: the next CPU tick enters the NMI sequence first.
C14_VBlankNmi ==
    [][IsTick =>
         /\ AtVBlankDot(nes) =>
              /\ \/ Bit(nes'.ppu.Status, 7) = 1
                 \/ nes'.obs.access = [kind |-> "read", addr |-> 8194]
              /\ (nes'.ppu.NMI \/ nes'.obs.nmiEntered = nes.obs.nmiEntered + 1)
                   <=> Bit(nes.ppu.Ctrl, 7) = 1
         /\ (nes.ppu.NMI \/ (AtVBlankDot(nes) /\ Bit(nes.ppu.Ctrl, 7) = 1)) =>
              /\ nes'.obs.fetches = nes.obs.fetches
              /\ IF CpuTick
                 THEN nes'.obs.nmiEntered = nes.obs.nmiEntered + 1 /\ ~nes'.ppu.NMI
                 ELSE nes'.obs.nmiEntered = nes.obs.nmiEntered /\ nes'.ppu.NMI]_vars

\* C14's case: dot 1 of scanline 241 was processed with PPUCTRL bit 7 set on
\* a tick without the CPU, the flag is up, and the CPU tick that followed
\* entered the NMI sequence instead of fetching.
C14_Witness ==
    /\ nes.cart # "none"
    /\ nes.ppu.Scanline = VBlankScanline /\ nes.ppu.Cycle = 4
    /\ nes.SystemClocks % 3 = 1
    /\ Bit(nes.ppu.Status, 7) = 1 /\ Bit(nes.ppu.Ctrl, 7) = 1
    /\ nes.obs.ticks = 4
    /\ nes.obs.nmiEntered = 1 /\ nes.obs.fetches = 0
    /\ ~nes.ppu.NMI

-----------------------------------------------------------------------------
(* SpecFrame: one pass of the host's frame loop, for i < 89342: Clock() *)

\* No interrupt source fires and the program is NOPs.
IdleInput ==
    [dmcEnd |-> FALSE, frameStep3 |-> FALSE, a12Zero |-> FALSE,
     opaque |-> FALSE, ins |-> Nop]

\* The emulator at a frame boundary: at power-on or after LoadCartridge
\* (scanline 0, dot 0), or where PPU.Clock wraps to (scanline -1, dot 0),
\* with PPUMASK and the parity of the frame counter as the game left them.
FrameStart(cart, mask, frame, scanline) ==
    [(IF cart = "none" THEN NewBus ELSE LoadCartridgeOp(NewBus, cart))
       EXCEPT !.ppu.Mask = mask, !.ppu.FrameCounter = frame,
              !.ppu.Scanline = scanline, !.obs.op = "new"]

\* The boundaries taken: power-on without a cartridge; with one, the
\* background off or on, an even or an odd frame, either boundary.
FrameStarts ==
    {<<"none", 0, 0, 0>>} \cup ({"uxrom"} \X {0, 8} \X {0, 1} \X {-1, 0})

FrameInit ==
    /\ \E s \in FrameStarts :
         /\ nes = FrameStart(s[1], s[2], s[3], s[4])
         /\ ex = [phase |-> "frame", start |-> nes.ppu]
    /\ steps = 0
    /\ disk = NoFile
    /\ jlog = JlogNew

FrameTick ==
    /\ nes.obs.ticks < FrameTicks
    /\ nes' = BusClock(nes, IdleInput)
    /\ UNCHANGED <<steps, disk, ex, jlog>>

FrameNext == FrameTick

SpecFrame == FrameInit /\ [][FrameNext]_vars

\* C6 (as claimed): 89,342 ticks from a frame boundary, no odd-frame skip
\* being made on the way, return the PPU to the same scanline and dot with
\* the frame counter advanced by exactly one.
C6_OneFrame ==
    (nes.obs.ticks = FrameTicks /\ nes.obs.skips = 0) =>
        /\ nes.ppu.Scanline = ex.start.Scanline
        /\ nes.ppu.Cycle = ex.start.Cycle
        /\ nes.ppu.FrameCounter = ex.start.FrameCounter + 1

\* C6 (amended): the same, for an emulator with a cartridge loaded.
C6_OneFrameWithCartridge ==
    (nes.obs.ticks = FrameTicks /\ nes.obs.skips = 0 /\ nes.cart # "none") =>
        /\ nes.ppu.Scanline = ex.start.Scanline
        /\ nes.ppu.Cycle = ex.start.Cycle
        /\ nes.ppu.FrameCounter = ex.start.FrameCounter + 1

\* C6's case: 89,342 ticks done from the pre-render boundary with the
\* background on, in an even frame, so that no dot was skipped.
C6_Witness ==
    /\ nes.obs.ticks = FrameTicks
    /\ nes.obs.skips = 0
    /\ nes.cart = "uxrom"
    /\ RenderingEnabled(nes.ppu)
    /\ nes.obs.ppuDots = FrameTicks
    /\ nes.ppu.Scanline = -1 /\ nes.ppu.Cycle = 0
    /\ nes.ppu.FrameCounter = 1

-----------------------------------------------------------------------------
(* SpecSave: saving and loading the state while the game reads the pad *)

MaxSaveSteps == 7

SaveInit ==
    /\ nes = NewBus
    /\ steps = 0
    /\ disk = NoFile
    /\ ex = ExIdle
    /\ jlog = JlogNew

SvLoadCartridge ==
    /\ steps < MaxSaveSteps
    /\ nes.cart = "none"
    /\ nes' = LoadCartridgeOp(nes, "uxrom")
    /\ steps' = steps + 1
    /\ UNCHANGED <<disk, ex, jlog>>

SvClock ==
    /\ steps < MaxSaveSteps
    /\ nes' = BusClock(nes, IdleInput)
    /\ steps' = steps + 1
    /\ UNCHANGED <<disk, ex, jlog>>

SvSetButtons ==
    /\ steps < MaxSaveSteps
    /\ \E p \in ButtonPatterns :
         /\ p # nes.joy1.buttons
         /\ nes' = SetController1State(nes, p)
    /\ steps' = steps + 1
    /\ UNCHANGED <<disk, ex, jlog>>

SvWrite ==
    /\ steps < MaxSaveSteps
    /\ \E d \in {0, 1} :
         nes' = [BusWrite(nes, 16406, d) EXCEPT !.obs.op = "write"]
    /\ steps' = steps + 1
    /\ UNCHANGED <<disk, ex, jlog>>

SvRead ==
    /\ steps < MaxSaveSteps
    /\ nes' = [BusRead(nes, 16406) EXCEPT !.obs.op = "read"]
    /\ steps' = steps + 1
    /\ UNCHANGED <<disk, ex, jlog>>

\* Bus.SaveState.  by: the emulator that produced the save, as it was.
SvSaveState ==
    /\ steps < MaxSaveSteps
    /\ disk' = [present |-> TRUE, state |-> SaveStateOp(nes), by |-> nes]
    /\ nes' = [nes EXCEPT !.obs.op = "save"]
    /\ steps' = steps + 1
    /\ UNCHANGED <<ex, jlog>>

\* Bus.LoadState of the file saved last.
SvLoadState ==
    /\ steps < MaxSaveSteps
    /\ disk.present
    /\ nes' = LoadStateOp(nes, disk.state)
    /\ steps' = steps + 1
    /\ UNCHANGED <<disk, ex, jlog>>

SaveNext ==
    \/ SvLoadCartridge \/ SvClock \/ SvSetButtons \/ SvWrite \/ SvRead
    \/ SvSaveState \/ SvLoadState

SpecSave == SaveInit /\ [][SaveNext]_vars

\* C8 (as claimed): after loading the state saved last, the emulator goes on
\* as the emulator that produced the save went on from the save: given the
\* same buttons, the game's next read of $4016, on which its next frames
\* depend, returns the same byte.
C8_RoundTrip ==
    (nes.obs.op = "load" /\ nes.joy1.buttons = disk.by.joy1.buttons) =>
        JoyReadData(nes, 16406) = JoyReadData(disk.by, 16406)

-----------------------------------------------------------------------------
(* MMC1 (cartridge/mmc1.go): the serial port and the PRG banks *)

\* control | 0x0C.
Or0C(v) == SetBit(SetBit(v, 2), 3)

\* mmc1.GetMirroring: the cartridge.Mirror* constant for control & 3.
MMC1GetMirroring(m) ==
    CASE m.control % 4 = 0 -> "OneScreenLower"
      [] m.control % 4 = 1 -> "OneScreenUpper"
      [] m.control % 4 = 2 -> "Vertical"
      [] OTHER             -> "Horizontal"

\* newMMC1; wram is kept at its first byte, Mirror is the cartridge's field.
NewMMC1 ==
    [control |-> 12, chrBank0 |-> 0, chrBank1 |-> 0, prgBank |-> 0,
     shiftRegister |-> 0, writeCount |-> 0,
     wramDisabled |-> FALSE, wramDisableCounter |-> 0,
     wram |-> 0, Mirror |-> "Horizontal"]

\* A PRG-ROM image: its size and the byte at every offset.  The bytes differ
\* from one 16 KiB bank to the next.
PrgImages == { [size |-> 65536, seed |-> 0], [size |-> 131072, seed |-> 100] }

PrgRom(img, off) == (img.seed + 29 * (off \div 16384) + off) % 256

\* mmc1.CPUMapRead for $8000-$FFFF: the PRG-ROM offset read.
MMC1PrgOffset(m, img, addr) ==
    LET prgBankMode == (m.control \div 4) % 4
        numPrgBanks == img.size \div 16384
    IN  IF prgBankMode \in {0, 1}
        THEN (((m.prgBank \div 2) % 8) % (numPrgBanks \div 2)) * 32768
               + (addr % 32768)
        ELSE IF prgBankMode = 2
        THEN (IF addr < 49152 THEN 0 ELSE (m.prgBank % 16) % numPrgBanks) * 16384
               + (addr % 16384)
        ELSE (IF addr < 49152 THEN (m.prgBank % 16) % numPrgBanks
                               ELSE numPrgBanks - 1) * 16384
               + (addr % 16384)

\* Mode 3 read as mode 2: first bank fixed at $8000.
MMC1CPUMapReadFixFirst(m, img, addr) ==
    IF addr >= 32768
    THEN PrgRom(img, MMC1PrgOffset([m EXCEPT !.control = ClrBit(@, 2)], img, addr))
    ELSE m.wram

\* mmc1.CPUMapRead: the byte returned for $6000 and for $8000-$FFFF.
MMC1CPUMapRead(m, img, addr) ==
    IF addr >= 32768
    THEN PrgRom(img, MMC1PrgOffset(m, img, addr))
    ELSE m.wram

\* The register written by the fifth write: bits 13-14 of its address.
MMC1Target(addr) == (addr \div 8192) % 4

\* A port that never sees the reset bit.
MMC1CPUMapWriteNoReset(m, addr, data) ==
    [m EXCEPT !.shiftRegister = (@ \div 2) + 16 * (data % 2),
              !.writeCount = (@ + 1) % 256]

\* A port that shifts towards the high bit.
MMC1CPUMapWriteMsbFirst(m, addr, data) ==
    IF addr >= 32768 /\ data < 128 /\ m.writeCount < 4
    THEN [m EXCEPT !.shiftRegister = ((@ * 2) % 32) + (data % 2),
                   !.writeCount = (@ + 1) % 256]
    ELSE [m EXCEPT !.shiftRegister = 0, !.writeCount = 0]

\* mmc1.CPUMapWrite.
MMC1CPUMapWrite(m, addr, data) ==
    IF addr >= 32768
    THEN IF Bit(data, 7) = 1
         THEN [m EXCEPT !.shiftRegister = 0, !.writeCount = 0,
                        !.control = Or0C(@)]
         ELSE LET sr == (m.shiftRegister \div 2) + 16 * (data % 2)
                  wc == (m.writeCount + 1) % 256
                  s  == [m EXCEPT !.shiftRegister = sr, !.writeCount = wc]
              IN  IF wc # 5 THEN s
                  ELSE LET t == MMC1Target(addr)
                           f == CASE t = 0 -> [s EXCEPT !.control = sr]
                                  [] t = 1 -> [s EXCEPT !.chrBank0 = sr]
                                  [] t = 2 -> [s EXCEPT !.chrBank1 = sr]
                                  [] OTHER ->
                                       IF Bit(sr, 4) = 1
                                       THEN [s EXCEPT !.prgBank = sr,
                                                      !.wramDisableCounter = 2]
                                       ELSE [s EXCEPT !.prgBank = sr,
                                                      !.wramDisabled = FALSE]
                       IN  [f EXCEPT !.Mirror = IF t = 0 THEN MMC1GetMirroring(f)
                                                ELSE @,
                                     !.shiftRegister = 0, !.writeCount = 0]
    ELSE IF addr >= 24576 /\ ~m.wramDisabled
         THEN [m EXCEPT !.wram = data]
         ELSE m

\* mmc1.Clock.
MMC1Clock(m) ==
    IF m.wramDisableCounter > 0
    THEN [m EXCEPT !.wramDisableCounter = @ - 1,
                   !.wramDisabled = IF m.wramDisableCounter = 1 THEN TRUE ELSE @]
    ELSE m

\* The four internal registers, indexed as the fifth write's address does.
MMC1Regs(m) == <<m.control, m.chrBank0, m.chrBank1, m.prgBank>>

-----------------------------------------------------------------------------
(* SpecMmc1: a program writing to and reading from an MMC1 cartridge *)

MaxMmcWrites == 6

\* $6000, and in $8000-$FFFF an address in each of the four 8 KiB register
\* windows, at the start of a window or at its end.
Mmc1WriteAddrs == {24576, 32768, 49151, 49152, 65535}

\* Values control holds when the run begins: the power-on value, and values
\* a program has written through the port (PRG modes 0 and 2).
Mmc1Controls == {12, 3, 24}

\* Data bytes: bit 0 and bit 7 in every combination, other bits set or not.
Mmc1DataBytes == {0, 1, 126, 128, 255}

Mmc1ReadAddrs == {32768, 49152}

\* ex.m is the mapper and ex.img the ROM; the rest is the observer: the
\* last operation, the address of the last write, the last read, the
\* registers and the write count before a reset write, the registers when
\* the current run of writes began at an empty shift register, and the bits
\* written in that run.
Mmc1Init ==
    /\ nes = NewBus
    /\ steps = 0
    /\ disk = NoFile
    /\ jlog = JlogNew
    /\ \E img \in PrgImages, c \in Mmc1Controls :
         LET m0 == [NewMMC1 EXCEPT !.control = c,
                                   !.Mirror = IF c = NewMMC1.control THEN @
                                              ELSE MMC1GetMirroring([control |-> c])]
         IN  ex = [phase |-> "mmc1", m |-> m0, img |-> img, op |-> "new",
                   addr |-> 0, rd |-> [addr |-> 0, val |-> 0],
                   prev |-> MMC1Regs(m0),
                   prevCount |-> 0, start |-> MMC1Regs(m0), bits |-> <<>>]

\* Bus.Write reaching the mapper: mmc1.CPUMapWrite.
Mmc1Write ==
    /\ steps < MaxMmcWrites
    /\ \E addr \in Mmc1WriteAddrs, data \in Mmc1DataBytes :
         LET port  == addr >= 32768
             reset == port /\ data >= 128
             fresh == Len(ex.bits) \in {0, 5}
         IN  ex' = [ex EXCEPT
                      !.m = MMC1CPUMapWrite(ex.m, addr, data),
                      !.op = IF reset THEN "reset"
                             ELSE IF port THEN "shift" ELSE "wram",
                      !.addr = addr,
                      !.rd = [addr |-> 0, val |-> 0],
                      !.prev = IF reset THEN MMC1Regs(ex.m) ELSE <<0, 0, 0, 0>>,
                      !.prevCount = IF reset THEN ex.m.writeCount ELSE 0,
                      !.start = IF reset
                                THEN MMC1Regs(MMC1CPUMapWrite(ex.m, addr, data))
                                ELSE IF port /\ fresh THEN MMC1Regs(ex.m)
                                ELSE @,
                      !.bits = IF reset THEN <<>>
                               ELSE IF port /\ fresh THEN <<data % 2>>
                               ELSE IF port THEN Append(@, data % 2)
                               ELSE @]
    /\ steps' = steps + 1
    /\ UNCHANGED <<nes, disk, jlog>>

\* Bus.Read reaching the mapper: mmc1.CPUMapRead.
Mmc1Read ==
    /\ ex.op # "read"
    /\ \E addr \in Mmc1ReadAddrs :
         ex' = [ex EXCEPT !.op = "read",
                          !.rd = [addr |-> addr,
                                  val |-> MMC1CPUMapRead(ex.m, ex.img, addr)]]
    /\ UNCHANGED <<nes, steps, disk, jlog>>

\* Bus.Clock on a CPU tick: mmc1.Clock.
Mmc1Clock ==
    /\ ex.m.wramDisableCounter > 0
    /\ ex' = [ex EXCEPT !.m = MMC1Clock(ex.m), !.op = "clock"]
    /\ UNCHANGED <<nes, steps, disk, jlog>>

Mmc1Next == Mmc1Write \/ Mmc1Read \/ Mmc1Clock

SpecMmc1 == Mmc1Init /\ [][Mmc1Next]_vars

\* C11: right after a write to $8000-$FFFF with bit 7 set, whatever came
\* before it, the shift register holds no bits (value 0, count 0) and
\* control is its previous value ORed with $0C; the other registers are as
\* they were.
C11_ResetWrite ==
    ex.op = "reset" =>
        /\ ex.m.shiftRegister = 0
        /\ ex.m.writeCount = 0
        /\ MMC1Regs(ex.m) = [ex.prev EXCEPT ![1] = Or0C(@)]

\* C11's case: the reset write came with three bits in the shift register
\* and with control not holding $0C.
C11_Witness ==
    /\ ex.op = "reset"
    /\ ex.prevCount = 3
    /\ (ex.prev[1] \div 4) % 4 # 3
    /\ ex.m.control # ex.prev[1]

\* The value of five bits written least significant bit first.
LsbFirst(bits) ==
    bits[1] + 2 * bits[2] + 4 * bits[3] + 8 * bits[4] + 16 * bits[5]

\* C12: counted from an empty shift register, the first four writes with
\* bit 7 clear change none of control, CHR0, CHR1, PRG; the fifth fills the
\* one register selected by bits 13-14 of its address with bit 0 of the five
\* writes, first write in bit 0, changes no other, and leaves the shift
\* register empty.
C12_FiveWrites ==
    /\ Len(ex.bits) \in 1..4 => MMC1Regs(ex.m) = ex.start
    /\ Len(ex.bits) = 5 /\ ex.op = "shift" =>
          /\ MMC1Regs(ex.m) =
               [ex.start EXCEPT ![MMC1Target(ex.addr) + 1] = LsbFirst(ex.bits)]
          /\ ex.m.shiftRegister = 0
          /\ ex.m.writeCount = 0

\* C12's case: the bits 1,0,1,1,0 written to the CHR0 window after an
\* earlier fill had changed control.
C12_Witness ==
    /\ Len(ex.bits) = 5
    /\ ex.op = "shift"
    /\ ex.bits = <<1, 0, 1, 1, 0>>
    /\ MMC1Target(ex.addr) = 1
    /\ ex.m.chrBank0 = 13
    /\ ex.start[1] # 12

\* The read C13 is about: 64 KiB of PRG ROM, control $0C when the writes
\* began, 1,1,1,1,0 written to the PRG window, then $8000 read.
PrgSwapRead ==
    /\ ex.img.size = 65536
    /\ ex.start[1] = 12
    /\ ex.bits = <<1, 1, 1, 1, 0>>
    /\ ex.addr >= 32768
    /\ MMC1Target(ex.addr) = 3
    /\ ex.op = "read"
    /\ ex.rd.addr = 32768

\* C13 (as claimed): that read returns PRG-ROM[$4000] (bank 1).
C13_PrgBank1 ==
    PrgSwapRead => ex.rd.val = PrgRom(ex.img, 16384)

\* C13 (amended): 1,1,1,1,0 least significant bit first is 15, and bank 15
\* of four is bank 3: that read returns PRG-ROM[$C000].
C13_PrgBank3 ==
    PrgSwapRead => ex.rd.val = PrgRom(ex.img, 49152)

\* C13's case: the read was made and returned the first byte of bank 3,
\* which differs from the first byte of bank 1.
C13_Witness ==
    /\ PrgSwapRead
    /\ ex.rd.val = PrgRom(ex.img, 49152)
    /\ ex.rd.val # PrgRom(ex.img, 16384)

-----------------------------------------------------------------------------
(* SpecPpu: the PPU alone.  The host runs PPU.Clock for a number of dots     *)
(* and, between runs, the CPU reads $2002 or writes $2000, $2001, $2005 or *)
(* $2006.                                                                  *)

MaxPpuSteps == 6

\* How many dots pass between two register accesses.
RunLengths == {1, 8}

\* The register writes of the game: PPUCTRL with NMI off and on, PPUMASK
\* with background and sprites on, one byte to PPUSCROLL and to PPUADDR.
PpuWrites ==
    { [reg |-> 0, data |-> 0], [reg |-> 0, data |-> 128],
      [reg |-> 1, data |-> 24],
      [reg |-> 5, data |-> 213], [reg |-> 6, data |-> 213] }

\* One PPU.Clock with the probes: has overflow (the hit) been set since the
\* last pre-render dot 1, is the vblank of dot (241,1) still unread.
PpuDot(s, opaque) ==
    LET q == PPUClock(s.p, TRUE, opaque /\ PPUCanOverlap(s.p))
        clear == s.p.Scanline = -1 /\ s.p.Cycle = 1
        rise == s.p.Scanline = VBlankScanline /\ s.p.Cycle = 1
    IN  [p |-> q,
         seenOvf |-> (s.seenOvf /\ ~clear) \/ Bit(q.Status, 5) = 1,
         seenHit |-> (s.seenHit /\ ~clear) \/ q.spriteZeroHit,
         vbl |-> (s.vbl /\ ~clear) \/ rise]

\* n times PPU.Clock.
RECURSIVE PpuRunN(_, _, _)
PpuRunN(s, n, opaque) ==
    IF n = 0 THEN s
    ELSE IF n = 1 THEN PpuDot(s, opaque)
    ELSE LET t == PpuRunN(s, n \div 2, opaque)
         IN  \* the test makes the evaluator compute t before it goes on
             IF t.p.Cycle < 0 THEN t
             ELSE PpuRunN(t, n - n \div 2, opaque)

\* Where a run starts: the PPUMASK byte the game wrote at power-on and the
\* dots since.  0: power-on; 597: scanline 1, dot 256, before the sprite
\* evaluation; 82181: scanline 241, dot 0, one dot before vblank.
PpuStarts ==
    { [mask |-> 0, dots |-> 0], [mask |-> 24, dots |-> 0],
      [mask |-> 0, dots |-> 597], [mask |-> 24, dots |-> 597],
      [mask |-> 0, dots |-> 82181] }

\* The PPU k dots after power-on, of a game whose first act was to write
\* mask to PPUMASK and that left the PPU alone since.
PpuAfter(mask, k) ==
    PpuRunN([p |-> PPUCPUWrite(NewPPU, 1, mask), seenOvf |-> FALSE,
             seenHit |-> FALSE, vbl |-> FALSE], k, TRUE)

PpuInit ==
    /\ nes = NewBus
    /\ steps = 0
    /\ disk = NoFile
    /\ jlog = JlogNew
    /\ \E st \in PpuStarts :
         LET s == PpuAfter(st.mask, st.dots)
         IN  ex = [phase |-> "ppu", p |-> s.p, op |-> "new", reg |-> 0,
                   data |-> 0, val |-> 0, sinceRead |-> FALSE,
                   seenOvf |-> s.seenOvf, seenHit |-> s.seenHit,
                   vbl |-> s.vbl]

\* The host clocks the PPU n times.
PpuRun ==
    /\ steps < MaxPpuSteps
    /\ \E n \in RunLengths, opaque \in BOOLEAN :
         /\ opaque => Bit(ex.p.Mask, 3) = 1 /\ Bit(ex.p.Mask, 4) = 1
         /\ LET s == PpuRunN([p |-> ex.p, seenOvf |-> ex.seenOvf,
                              seenHit |-> ex.seenHit, vbl |-> ex.vbl],
                             n, opaque)
            IN  ex' = [ex EXCEPT !.p = s.p, !.op = "run", !.reg = 0,
                                 !.data = 0, !.val = 0,
                                 !.seenOvf = s.seenOvf, !.seenHit = s.seenHit,
                                 !.vbl = s.vbl]
    /\ steps' = steps + 1
    /\ UNCHANGED <<nes, disk, jlog>>

\* The CPU reads $2002.
PpuRead ==
    /\ steps < MaxPpuSteps
    /\ ex' = [ex EXCEPT !.p = PPUCPURead(ex.p, 2), !.op = "read", !.reg = 2,
                        !.data = 0, !.val = PPUStatusByte(ex.p),
                        !.sinceRead = TRUE, !.vbl = FALSE]
    /\ steps' = steps + 1
    /\ UNCHANGED <<nes, disk, jlog>>

\* The CPU writes one of the registers.
PpuWrite ==
    /\ steps < MaxPpuSteps
    /\ \E w \in PpuWrites :
         ex' = [ex EXCEPT !.p = PPUCPUWrite(ex.p, w.reg, w.data),
                          !.op = "write", !.reg = w.reg, !.data = w.data,
                          !.val = 0,
                          !.sinceRead = IF w.reg \in {5, 6} THEN FALSE ELSE @]
    /\ steps' = steps + 1
    /\ UNCHANGED <<nes, disk, jlog>>

PpuNext == PpuRun \/ PpuRead \/ PpuWrite

SpecPpu == PpuInit /\ [][PpuNext]_vars

\* The step is a $2002 read.
IsPpuRead == steps' = steps + 1 /\ ex'.op = "read"

\* The step is a write to $2005 or $2006.
IsToggleWrite == steps' = steps + 1 /\ ex'.op = "write" /\ ex'.reg \in {5, 6}

\* C15: a $2002 read returns vblank in bit 7, the sprite-0 hit in bit 6 and
\* the overflow in bit 5, and clears vblank and the write toggle; of two
\* back-to-back reads after dot (241,1) the first sees bit 7 set and the
\* second sees it clear; the first write to $2005/$2006 after a $2002 read
\* is taken as a first write.
C15_StatusRead ==
    [][/\ IsPpuRead =>
            /\ Bit(ex'.val, 7) = Bit(ex.p.Status, 7)
            /\ Bit(ex'.val, 6) = B2N(ex.p.spriteZeroHit)
            /\ Bit(ex'.val, 5) = Bit(ex.p.Status, 5)
            /\ Bit(ex'.p.Status, 7) = 0
            /\ ex'.p.addrLatch = 0
            /\ ex.vbl => Bit(ex'.val, 7) = 1
            /\ ex.op = "read" => Bit(ex'.val, 7) = 0
       /\ IsToggleWrite /\ ex.sinceRead =>
            /\ ex'.p.addrLatch = 1
            /\ ex'.reg = 5 => /\ ex'.p.fineX = ex'.data % 8
                              /\ ex'.p.vramTmpAddr % 32 = ex'.data \div 8
            /\ ex'.reg = 6 => (ex'.p.vramTmpAddr \div 256) = ex'.data % 64]_vars

\* C15's case: vblank began, $2002 was read twice in a row (the second read
\* has bit 7 clear), between them nothing, and a $2005 write before the
\* reads had left the toggle on its second write.
C15_Witness ==
    /\ ex.phase = "ppu"
    /\ ex.op = "read"
    /\ steps = 5
    /\ ex.p.Scanline = VBlankScanline /\ ex.p.Cycle = 2
    /\ ex.p.Mask = 0
    /\ Bit(ex.val, 7) = 0
    /\ ex.p.fineX = 5
    /\ ex.p.addrLatch = 0
    /\ ex.sinceRead

\* The step is a $2000 write that turns NMI-enable on while vblank is set.
IsNmiEnableInVBlank ==
    /\ steps' = steps + 1
    /\ ex'.op = "write" /\ ex'.reg = 0 /\ Bit(ex'.data, 7) = 1
    /\ Bit(ex.p.Ctrl, 7) = 0
    /\ Bit(ex.p.Status, 7) = 1

\* C16: a write to $2000 that turns NMI-enable from off to on while the
\* vblank flag is set raises NMI at once.
C16_EnableRaisesNmi ==
    [][IsNmiEnableInVBlank => ex'.p.NMI]_vars

\* C17: the sprite-0 hit and the sprite overflow, once set, are read as set
\* in $2002 until dot 1 of the pre-render scanline clears them.
C17_FlagsStick ==
    /\ ex.seenOvf => Bit(PPUStatusByte(ex.p), 5) = 1
    /\ ex.seenHit => Bit(PPUStatusByte(ex.p), 6) = 1

-----------------------------------------------------------------------------
(* SpecOdd: the length of a frame.  The PPU runs dot by dot from power-on; *)
(* the game turns the background on at the start of some frame, or never.  *)

MaxFrames == 3

\* PPUMASK with the background on.
BackgroundOn == 8

OddInit ==
    /\ nes = NewBus
    /\ steps = 0
    /\ disk = NoFile
    /\ jlog = JlogNew
    /\ ex = [phase |-> "odd", p |-> NewPPU, dots |-> 0, lens |-> <<>>]

\* One PPU.Clock.  A frame ends when the PPU arrives at scanline 0, dot 0;
\* its length in dots and whether it was rendered go to lens.
OddDot ==
    /\ steps < MaxFrames
    /\ LET q == PPUClock(ex.p, TRUE, FALSE)
           done == q.Scanline = 0 /\ q.Cycle = 0
       IN  /\ ex' = [ex EXCEPT
                       !.p = q,
                       !.dots = IF done THEN 0 ELSE @ + 1,
                       !.lens = IF done
                                THEN Append(@, [dots |-> ex.dots + 1,
                                                on |-> RenderingEnabled(ex.p)])
                                ELSE @]
           /\ steps' = IF done THEN steps + 1 ELSE steps
    /\ UNCHANGED <<nes, disk, jlog>>

\* The game writes PPUMASK at the first dot of a frame to turn rendering on.
OddEnable ==
    /\ steps < MaxFrames
    /\ ex.dots = 0
    /\ ~RenderingEnabled(ex.p)
    /\ ex' = [ex EXCEPT !.p = PPUCPUWrite(ex.p, 1, BackgroundOn)]
    /\ UNCHANGED <<nes, steps, disk, jlog>>

OddNext == OddDot \/ OddEnable

SpecOdd == OddInit /\ [][OddNext]_vars

\* C18: with rendering disabled every frame is 89,342 dots long; with
\* rendering enabled the frames alternate between 89,342 and 89,341 dots
\* (one pre-render dot is skipped on odd frames only).
C18_OddFrameSkip ==
    /\ \A i \in 1..Len(ex.lens) :
         /\ ~ex.lens[i].on => ex.lens[i].dots = FrameTicks
         /\ ex.lens[i].on => ex.lens[i].dots \in {FrameTicks, FrameTicks - 1}
    /\ \A i \in 1..(Len(ex.lens) - 1) :
         ex.lens[i].on /\ ex.lens[i + 1].on =>
           ex.lens[i].dots # ex.lens[i + 1].dots

-----------------------------------------------------------------------------
(* SpecDma: OAM DMA.  The game runs NOPs and STA $4014 (page 2 of RAM or   *)
(* page $80 of the cartridge) after reset; the Bus is clocked tick by tick.*)

MaxDmaTicks == 60

DmaProgram ==
    { Nop,
      [opcode |-> 141, addr |-> 16404, data |-> 2],
      [opcode |-> 141, addr |-> 16404, data |-> 128] }

DmaInit ==
    /\ nes = LoadCartridgeOp(NewBus, "uxrom")
    /\ steps = 0
    /\ disk = NoFile
    /\ jlog = JlogNew
    /\ ex = [phase |-> "dma", since |-> -1, dots |-> 0, apu |-> 0]

\* One Bus.Clock.  since: CPU cycles run after the one that wrote $4014
\* (-1: no write yet); dots, apu: PPU dots and APU clocks since that write.
DmaClock ==
    /\ steps < MaxDmaTicks
    /\ \E ins \in DmaProgram :
         /\ ins # Nop => (nes.SystemClocks % 3 = 0 /\ nes.cpu.Cycles = 0)
         /\ nes' = BusClock(nes, [IdleInput EXCEPT !.ins = ins])
         /\ LET wrote == nes'.obs.access = [kind |-> "write", addr |-> 16404]
                cpu == nes'.obs.cpuClocks - nes.obs.cpuClocks
            IN  ex' = IF wrote
                      THEN [ex EXCEPT !.since = 0, !.dots = 0, !.apu = 0]
                      ELSE IF ex.since < 0 THEN ex
                      ELSE [ex EXCEPT
                              !.since = @ + cpu,
                              !.dots = @ + nes'.obs.ppuDots - nes.obs.ppuDots,
                              !.apu = @ + nes'.obs.apuClocks - nes.obs.apuClocks]
    /\ steps' = steps + 1
    /\ UNCHANGED <<disk, jlog>>

DmaNext == DmaClock

SpecDma == DmaInit /\ [][DmaNext]_vars

\* C19: after a write to $4014 the CPU is stalled for 513 cycles (514 from
\* an odd cycle): it fetches no instruction until they have passed, while
\* the PPU and the APU go on being clocked.
C19_DmaStall ==
    [][/\ (ex.since >= 0 /\ nes'.obs.fetches = nes.obs.fetches + 1)
            => ex.since + 1 > 513
       /\ (ex.since >= 0 /\ ex'.since > ex.since)
            => /\ ex'.dots = ex.dots + 1
               /\ ex'.apu = ex.apu + 1]_vars

-----------------------------------------------------------------------------
(* Palette RAM (PPU.PPURead, PPU.PPUWrite, $3F00-$3FFF)                    *)

\* PPU.Reset fills the palette with $0F.
NewPalette == [i \in 0..31 |-> 15]

\* The palette entry an address in $3F00-$3FFF selects.
PaletteIndex(addr) ==
    LET a == (addr % 16384) % 32
    IN  IF a \in {16, 20, 24, 28} THEN a - 16 ELSE a

PPUReadPalette(pal, addr) == pal[PaletteIndex(addr)]

\* A write that does not fold $3F10/$3F14/$3F18/$3F1C.
PPUWritePaletteUnfolded(pal, addr, data) ==
    [pal EXCEPT ![(addr % 16384) % 32] = data]

PPUWritePalette(pal, addr, data) == [pal EXCEPT ![PaletteIndex(addr)] = data]

-----------------------------------------------------------------------------
(* SpecPal: writes and reads of palette RAM *)

MaxPalWrites == 3

\* $3F00, $3F04, $3F08, $3F0C.
PalLow == {16128, 16132, 16136, 16140}

\* The addresses used: the four backdrop entries, their mirrors at +$10,
\* two plain entries ($3F01, $3F11) and a mirror of the whole range ($3F30).
PalAddrs == PalLow \cup {a + 16 : a \in PalLow} \cup {16129, 16145, 16176}

PalBytes == {33, 48}

\* The other address of a mirrored pair (the address itself elsewhere).
PalTwin(addr) ==
    IF addr \in PalLow THEN addr + 16
    ELSE IF addr - 16 \in PalLow THEN addr - 16
    ELSE addr

PalInit ==
    /\ nes = NewBus
    /\ steps = 0
    /\ disk = NoFile
    /\ jlog = JlogNew
    /\ ex = [phase |-> "pal", palette |-> NewPalette, op |-> "new",
             w |-> [addr |-> 0, data |-> 0], r |-> [addr |-> 0, val |-> 0]]

PalWrite ==
    /\ steps < MaxPalWrites
    /\ \E addr \in PalAddrs, data \in PalBytes :
         ex' = [ex EXCEPT !.palette = PPUWritePalette(@, addr, data),
                          !.op = "write",
                          !.w = [addr |-> addr, data |-> data],
                          !.r = [addr |-> 0, val |-> 0]]
    /\ steps' = steps + 1
    /\ UNCHANGED <<nes, disk, jlog>>

PalRead ==
    /\ \E addr \in PalAddrs :
         ex' = [ex EXCEPT !.op = "read",
                          !.r = [addr |-> addr,
                                 val |-> PPUReadPalette(ex.palette, addr)]]
    /\ UNCHANGED <<nes, steps, disk, jlog>>

PalNext == PalWrite \/ PalRead

SpecPal == PalInit /\ [][PalNext]_vars

\* C20: a read at $3F10, $3F14, $3F18 or $3F1C returns what a read at
\* $3F00, $3F04, $3F08 or $3F0C returns, and a write through either address
\* of a pair is what the next read through either of them returns.
C20_PaletteMirror ==
    /\ \A a \in PalLow :
         PPUReadPalette(ex.palette, a + 16) = PPUReadPalette(ex.palette, a)
    /\ (ex.op = "read" /\ ex.w.addr # 0
          /\ ex.r.addr \in {ex.w.addr, PalTwin(ex.w.addr)})
         => ex.r.val = ex.w.data

\* C20's case: a byte written through $3F10 is read back through $3F00.
C20_Witness ==
    /\ ex.phase = "pal"
    /\ ex.op = "read"
    /\ ex.w = [addr |-> 16144, data |-> 48]
    /\ ex.r = [addr |-> 16128, val |-> 48]

-----------------------------------------------------------------------------
(* CPU registers, flags and the stack (cpu.go: setFlag, push, pop, php,    *)
(* plp, pha, rti, NMI, Reset and the flag instructions).  A machine m is   *)
(* the register file m.c and page 1 of RAM, m.stack, indexed by SP.        *)

\* The constants B and U: masks of bits 4 and 5 of P.
MaskB == 16

MaskU == 32

\* Flag(flag): the bit number for the characters 'C', 'Z', 'I', 'D', 'B',
\* 'U', 'V', 'N' (given by their codes), and 0 for any other byte.
CPUFlag(flag) ==
    CASE flag = 67 -> 0
      [] flag = 90 -> 1
      [] flag = 73 -> 2
      [] flag = 68 -> 3
      [] flag = 66 -> 4
      [] flag = 85 -> 5
      [] flag = 86 -> 6
      [] flag = 78 -> 7
      [] OTHER -> 0

\* setFlag(flag, v) on status byte P.
CPUSetFlag(P, flag, v) ==
    IF v THEN SetBit(P, CPUFlag(flag)) ELSE ClrBit(P, CPUFlag(flag))

\* CPU.Reset with the reset vector pointing at pc.
CPUResetRegs(pc) ==
    [A |-> 0, X |-> 0, Y |-> 0, SP |-> 253,
     P |-> CPUSetFlag(MaskU, 73, TRUE), PC |-> pc]

CPUPush(m, data) ==
    [m EXCEPT !.stack[m.c.SP] = data, !.c.SP = (@ + 255) % 256]

\* pop(): the machine with SP incremented; the byte popped is CPUTop of it.
CPUPop(m) == [m EXCEPT !.c.SP = (@ + 1) % 256]

CPUTop(m) == m.stack[m.c.SP]

\* A php that pushes P as it is.
CPUPhpRaw(m) == CPUPush(m, m.c.P)

\* php(): push(P | B | U).
CPUPhp(m) == CPUPush(m, SetBit(SetBit(m.c.P, 4), 5))

\* plp(): P = pop(); setFlag(B, false); setFlag(U, true), called with the
\* mask constants B and U, not with the characters.
CPUPlp(m) ==
    LET q == CPUPop(m)
    IN  [q EXCEPT !.c.P = CPUSetFlag(CPUSetFlag(CPUTop(q), MaskB, FALSE),
                                     MaskU, TRUE)]

\* rti(): P = pop(); setFlag(B, false); setFlag(U, false); PC = pop, pop.
CPURti(m) ==
    LET q1 == CPUPop(m)
        P == CPUSetFlag(CPUSetFlag(CPUTop(q1), MaskB, FALSE), MaskU, FALSE)
        q2 == CPUPop(q1)
        q3 == CPUPop(q2)
    IN  [q3 EXCEPT !.c.P = P, !.c.PC = CPUTop(q2) + 256 * CPUTop(q3)]

\* CPU.NMI: push PC high, PC low; clear B, set U and I; push P; load PC
\* from the vector.
CPUNMIRegs(m, vector) ==
    LET q1 == CPUPush(CPUPush(m, m.c.PC \div 256), m.c.PC % 256)
        P == CPUSetFlag(CPUSetFlag(CPUSetFlag(q1.c.P, 66, FALSE), 85, TRUE),
                        73, TRUE)
        q2 == [q1 EXCEPT !.c.P = P]
    IN  [CPUPush(q2, P) EXCEPT !.c.PC = vector]

\* CPU.Clock at c.Cycles = 0: fetch the opcode (PC++), run the addressing
\* mode (imm: PC++) and the operation.  operand: the byte after the opcode.
CPUExecute(m, op, operand) ==
    LET mode == OpAddrMode(op)
        f == [m EXCEPT !.c.PC = (@ + (IF mode = "imm" THEN 2 ELSE 1)) % 65536]
        operate == OpOperate(op)
    IN  CASE operate = "php" -> CPUPhp(f)
          [] operate = "plp" -> CPUPlp(f)
          [] operate = "pha" -> CPUPush(f, f.c.A)
          [] operate = "rti" -> CPURti(f)
          [] operate = "sec" -> [f EXCEPT !.c.P = CPUSetFlag(@, 67, TRUE)]
          [] operate = "clc" -> [f EXCEPT !.c.P = CPUSetFlag(@, 67, FALSE)]
          [] operate = "sei" -> [f EXCEPT !.c.P = CPUSetFlag(@, 73, TRUE)]
          [] operate = "cli" -> [f EXCEPT !.c.P = CPUSetFlag(@, 73, FALSE)]
          [] operate = "lda" /\ mode = "imm" ->
               [f EXCEPT !.c.A = operand,
                         !.c.P = CPUSetFlag(CPUSetFlag(@, 90, operand = 0),
                                            78, operand >= 128)]
          [] OTHER -> f

\* The opcodes absent from the table literal of createLookupTable, which the
\* loop at its end fills with {"XXX", nop, imp, 2}.
UnhandledOpcodes ==
    {0, 2, 3, 4, 7, 12, 15, 18, 19, 20, 23, 26, 27, 28, 31, 34, 50, 52, 58,
     60, 66, 67, 68, 71, 79, 82, 83, 84, 87, 90, 91, 92, 95, 98, 100, 114,
     116, 122, 124, 128, 130, 137, 146, 147, 155, 156, 158, 159, 178, 194,
     203, 210, 212, 218, 220, 226, 235, 242, 244, 250, 252}

-----------------------------------------------------------------------------
(* SpecRegs: the CPU after reset runs instructions one after another and   *)
(* takes NMIs in between.                                                  *)

MaxRegSteps == 4

\* PHP, PLP, PHA, RTI, SEC, CLC, SEI, CLI, LDA #imm, NOP and every opcode
\* the table does not list.
RegOpcodes == {8, 40, 72, 64, 56, 24, 120, 88, 169, 234} \cup UnhandledOpcodes

\* Operand bytes of LDA #imm: zero, and a byte with bits 7, 6 and 4 set.
RegOperands == {0, 208}

\* The reset vector and the NMI vector of the game.
RegResetVector == 32768

RegNmiVector == 37119

RegsInit ==
    /\ nes = NewBus
    /\ steps = 0
    /\ disk = NoFile
    /\ jlog = JlogNew
    /\ ex = [phase |-> "regs",
             m |-> [c |-> CPUResetRegs(RegResetVector),
                    stack |-> [i \in 0..255 |-> 0]],
             src |-> "reset", op |-> 0, cycles |-> 0, prevP |-> 0]

\* CPU.Clock at an instruction boundary.
RegStep ==
    /\ steps < MaxRegSteps
    /\ \E op \in RegOpcodes, operand \in RegOperands :
         /\ OpAddrMode(op) # "imm" => operand = 0
         /\ ex' = [ex EXCEPT
                     !.m = CPUExecute(ex.m, op, operand),
                     !.src = "step", !.op = op,
                     !.cycles = InstrCycles(op, ex.m.c.PC, operand, 0, 0,
                                            ex.m.c.X, ex.m.c.Y, ex.m.c.P),
                     !.prevP = ex.m.c.P]
    /\ steps' = steps + 1
    /\ UNCHANGED <<nes, disk, jlog>>

\* Bus.Clock finds the PPU's NMI latch set: CPU.NMI.
RegNMI ==
    /\ steps < MaxRegSteps
    /\ ex' = [ex EXCEPT !.m = CPUNMIRegs(ex.m, RegNmiVector), !.src = "nmi",
                        !.op = 0, !.cycles = NMICycles, !.prevP = ex.m.c.P]
    /\ steps' = steps + 1
    /\ UNCHANGED <<nes, disk, jlog>>

RegsNext == RegStep \/ RegNMI

SpecRegs == RegsInit /\ [][RegsNext]_vars

C27_UnhandledIsNop ==
    [][(ex'.src = "step" /\ ex'.op \in UnhandledOpcodes) =>
         /\ ex'.cycles = 2
         /\ ex'.m.c = [ex.m.c EXCEPT !.PC = (@ + 1) % 65536]
         /\ ex'.m.stack = ex.m.stack]_vars

\* C27's case: opcode $02 was run after PHP had changed SP and the stack.
C27_Witness ==
    /\ ex.phase = "regs"
    /\ ex.src = "step" /\ ex.op = 2
    /\ ex.cycles = 2
    /\ ex.m.c.SP = 252
    /\ ex.m.c.PC = 32770

-----------------------------------------------------------------------------
(* ROM loader (cartridge.New, NewMapper).  A file is seen through its       *)
(* length, its signature and its header bytes 4..7.  The body bytes are not *)
(* kept: of PRGROM and CHRROM the lengths are kept and how many bytes of    *)
(* the file reached them.                                                   *)

NoCartridge == [kind |-> "none"]

\* NewMapper whose default case builds an NROM.
NewMapperNromDefault(mapperID) ==
    CASE mapperID = 1 -> "mmc1"
      [] mapperID = 2 -> "uxrom"
      [] mapperID = 3 -> "cnrom"
      [] mapperID = 4 -> "mmc3"
      [] OTHER        -> "nrom"

\* NewMapper: the mapper built for an id; the default case answers an error.
NewMapper(mapperID) ==
    CASE mapperID = 0 -> "nrom"
      [] mapperID = 1 -> "mmc1"
      [] mapperID = 2 -> "uxrom"
      [] mapperID = 3 -> "cnrom"
      [] mapperID = 4 -> "mmc3"
      [] OTHER        -> "unsupported"

\* (data[6] >> 4) | (data[7] & 0xF0)
MapperID(flags6, flags7) == (flags6 \div 16) + 16 * (flags7 \div 16)

\* cartridge.New after ReadAll: the error, or the cartridge with the mapper
\* NewMapper built for it.
CartridgeNew(f) ==
    IF f.size < 16 THEN [err |-> "too small", cart |-> NoCartridge]
    ELSE IF ~f.signature THEN [err |-> "signature", cart |-> NoCartridge]
    ELSE
      LET prgRomSize == f.prg * 16384
          chrRomSize == f.chr * 8192
          hasTrainer == Bit(f.flags6, 2) = 1
          offset     == IF hasTrainer THEN 16 + 512 ELSE 16
          prgEnd     == IF offset + prgRomSize > f.size THEN f.size
                        ELSE offset + prgRomSize
          chrStart   == offset + prgRomSize
          chrEnd     == IF chrStart + chrRomSize > f.size THEN f.size
                        ELSE chrStart + chrRomSize
          kind       == NewMapper(MapperID(f.flags6, f.flags7))
      IN  IF kind = "unsupported"
          THEN [err |-> "unsupported mapper", cart |-> NoCartridge]
          ELSE [err |-> "none",
                cart |-> [kind      |-> kind,
                          PRGROM    |-> prgRomSize,
                          CHRROM    |-> IF chrRomSize > 0 THEN chrRomSize ELSE 8192,
                          IsCHRRAM  |-> chrRomSize = 0,
                          prgCopied |-> IF prgEnd > offset THEN prgEnd - offset ELSE 0,
                          chrCopied |-> IF chrRomSize > 0 /\ chrStart < f.size
                                        THEN chrEnd - chrStart ELSE 0,
                          Mirror    |-> Bit(f.flags6, 0) + 2 * Bit(f.flags6, 4)]]

-----------------------------------------------------------------------------
(* Mapper address translation (nrom, uxrom, cnrom, mmc1, mmc3).  An access  *)
(* answers the slice it indexes and the offset; an index outside the slice  *)
(* and a remainder by zero are a panic of the Go runtime.                   *)

Unmapped == [hit |-> FALSE, panic |-> FALSE, rom |-> "none", off |-> 0]

Panics == [hit |-> FALSE, panic |-> TRUE, rom |-> "none", off |-> 0]

\* slice[off] of a slice of len bytes.
Index(rom, len, off) ==
    IF off >= 0 /\ off < len
    THEN [hit |-> TRUE, panic |-> FALSE, rom |-> rom, off |-> off]
    ELSE Panics

\* The mapper handled the write without touching a slice.
Latched == [hit |-> TRUE, panic |-> FALSE, rom |-> "none", off |-> 0]

\* newNROM, newUxROM, newCNROM, newMMC1, newMMC3.
NewMapperState(cart) ==
    CASE cart.kind = "nrom" ->
           [prgBanks |-> cart.PRGROM \div 16384, chrBanks |-> cart.CHRROM \div 8192]
      [] cart.kind = "uxrom" ->
           [prgBanks |-> cart.PRGROM \div 16384, prgBankSelect |-> 0]
      [] cart.kind = "cnrom" ->
           [prgBanks |-> cart.PRGROM \div 16384, chrBanks |-> cart.CHRROM \div 8192,
            chrBankSelect |-> 0]
      [] cart.kind = "mmc1" -> NewMMC1
      [] OTHER ->
           [prgBanks |-> cart.PRGROM \div 8192, chrBanks |-> cart.CHRROM \div 1024,
            targetRegister |-> 0, prgBankMode |-> FALSE, chrInversion |-> FALSE,
            registers |-> [i \in 0..7 |-> 0],
            irqCounter |-> 0, irqLatch |-> 0, irqReload |-> FALSE,
            irqEnabled |-> FALSE, irqPending |-> FALSE,
            lastA12 |-> FALSE, a12Delay |-> 0,
            fourScreen |-> Bit(cart.Mirror, 2) = 1, mirroring |-> cart.Mirror % 2]

\* nrom.CPUMapRead and cnrom.CPUMapRead.
NROMCPUMapRead(cart, m, addr) ==
    IF addr >= 32768
    THEN Index("prg", cart.PRGROM,
               IF m.prgBanks = 1 THEN (addr - 32768) % 16384 ELSE addr - 32768)
    ELSE Unmapped

\* uxrom.CPUMapRead that takes the bank select as it was written.
UxROMCPUMapReadNoWrap(cart, m, addr) ==
    IF addr >= 32768 /\ addr <= 49151
    THEN Index("prg", cart.PRGROM, m.prgBankSelect * 16384 + (addr - 32768))
    ELSE IF addr >= 49152
    THEN Index("prg", cart.PRGROM, (m.prgBanks - 1) * 16384 + (addr - 49152))
    ELSE Unmapped

\* uxrom.CPUMapRead.
UxROMCPUMapRead(cart, m, addr) ==
    IF addr >= 32768 /\ addr <= 49151
    THEN IF m.prgBanks = 0 THEN Panics
         ELSE Index("prg", cart.PRGROM,
                    (m.prgBankSelect % m.prgBanks) * 16384 + (addr - 32768))
    ELSE IF addr >= 49152
    THEN Index("prg", cart.PRGROM, (m.prgBanks - 1) * 16384 + (addr - 49152))
    ELSE Unmapped

\* uxrom.CPUMapWrite.
UxROMCPUMapWrite(m, addr, data) ==
    IF addr >= 32768 THEN [m EXCEPT !.prgBankSelect = data] ELSE m

\* cnrom.CPUMapWrite.
CNROMCPUMapWrite(m, addr, data) ==
    IF addr >= 32768 /\ m.chrBanks > 0
    THEN [m EXCEPT !.chrBankSelect = data % m.chrBanks]
    ELSE m

\* cnrom.PPUMapRead; PPUMapWrite indexes the same byte when CHRROM is 8 KiB.
CNROMPPUMap(cart, m, addr) ==
    Index("chr", cart.CHRROM, m.chrBankSelect * 8192 + addr)

\* mmc1.CPUMapRead: WRAM, or PRG-ROM through the bank registers.
MMC1CPUMap(cart, m, addr) ==
    LET prgBankMode == (m.control \div 4) % 4
        numPrgBanks == cart.PRGROM \div 16384
    IN  IF addr >= 24576 /\ addr <= 32767
        THEN IF m.wramDisabled THEN Unmapped ELSE Index("wram", 8192, addr - 24576)
        ELSE IF addr < 32768 THEN Unmapped
        ELSE IF prgBankMode \in {0, 1} /\ numPrgBanks \div 2 = 0 THEN Panics
        ELSE IF prgBankMode \in {2, 3} /\ numPrgBanks = 0 THEN Panics
        ELSE Index("prg", cart.PRGROM,
                   MMC1PrgOffset(m, [size |-> cart.PRGROM], addr))

\* mmc1.PPUMapRead and PPUMapWrite: the CHR offset through chrBank0/1.
MMC1PPUMap(cart, m, addr) ==
    LET chrBankMode == Bit(m.control, 4)
        numChrBanks == cart.CHRROM \div 4096
    IN  IF chrBankMode = 0
        THEN IF numChrBanks \div 2 = 0 THEN Panics
             ELSE Index("chr", cart.CHRROM,
                        (((m.chrBank0 \div 2) % 16) % (numChrBanks \div 2)) * 8192
                          + (addr % 8192))
        ELSE IF numChrBanks = 0 THEN Panics
             ELSE Index("chr", cart.CHRROM,
                        ((IF addr < 4096 THEN m.chrBank0 ELSE m.chrBank1)
                           % numChrBanks) * 4096 + (addr % 4096))

\* clockIRQ that keeps the flag only while the counter is 0.
MMC3ClockIRQLevel(m) ==
    LET reload  == m.irqCounter = 0 \/ m.irqReload
        counter == IF reload THEN m.irqLatch ELSE m.irqCounter - 1
    IN  [m EXCEPT !.irqCounter = counter,
                  !.irqReload = IF reload THEN FALSE ELSE @,
                  !.irqPending = counter = 0 /\ m.irqEnabled]

\* mmc3.clockIRQ.
MMC3ClockIRQ(m) ==
    LET reload  == m.irqCounter = 0 \/ m.irqReload
        counter == IF reload THEN m.irqLatch ELSE m.irqCounter - 1
    IN  [m EXCEPT !.irqCounter = counter,
                  !.irqReload = IF reload THEN FALSE ELSE @,
                  !.irqPending = IF counter = 0 /\ m.irqEnabled THEN TRUE ELSE @]

\* checkA12 that clocks the scanline counter on every rising edge of A12.
MMC3CheckA12NoDebounce(m, addr) ==
    LET a12 == Bit(addr, 12) = 1
        m1  == IF a12 /\ ~m.lastA12 THEN MMC3ClockIRQ(m) ELSE m
    IN  IF a12 THEN [m1 EXCEPT !.lastA12 = TRUE, !.a12Delay = 0]
        ELSE [m1 EXCEPT !.lastA12 = FALSE]

\* mmc3.checkA12: a rising edge of PPU A12 after two CPU cycles low clocks
\* the scanline counter.
MMC3CheckA12(m, addr) ==
    LET a12 == Bit(addr, 12) = 1
        m1  == IF a12 /\ ~m.lastA12 /\ m.a12Delay >= 2 THEN MMC3ClockIRQ(m) ELSE m
    IN  IF a12 THEN [m1 EXCEPT !.lastA12 = TRUE, !.a12Delay = 0]
        ELSE [m1 EXCEPT !.lastA12 = FALSE]

\* mmc3.Clock.
MMC3Clock(m) == IF ~m.lastA12 THEN [m EXCEPT !.a12Delay = @ + 1] ELSE m

\* mmc3.getPRGBank; a negative answer stands for the remainder by zero.
MMC3GetPRGBank(m, addr) ==
    LET swap(r) == IF m.prgBanks = 0 THEN -1 ELSE m.registers[r] % m.prgBanks
    IN  IF addr <= 40959
        THEN IF m.prgBankMode THEN m.prgBanks - 2 ELSE swap(6)
        ELSE IF addr <= 49151 THEN swap(7)
        ELSE IF addr <= 57343
        THEN IF m.prgBankMode THEN swap(6) ELSE m.prgBanks - 2
        ELSE m.prgBanks - 1

\* mmc3.CPUMapRead.
MMC3CPUMapRead(cart, m, addr) ==
    IF addr >= 24576 /\ addr <= 32767 THEN Index("wram", 8192, addr - 24576)
    ELSE IF addr >= 32768
    THEN Index("prg", cart.PRGROM, MMC3GetPRGBank(m, addr) * 8192 + (addr % 8192))
    ELSE Unmapped

\* mmc3.CPUMapWrite, $8000-$FFFF.
MMC3CPUMapWrite(m, addr, data) ==
    LET isEven == addr % 2 = 0
    IN  IF addr < 32768 THEN m
        ELSE IF addr <= 40959
        THEN IF isEven
             THEN [m EXCEPT !.targetRegister = data % 8,
                            !.prgBankMode = Bit(data, 6) = 1,
                            !.chrInversion = Bit(data, 7) = 1]
             ELSE [m EXCEPT !.registers[m.targetRegister] = data]
        ELSE IF addr <= 49151
        THEN IF isEven THEN [m EXCEPT !.mirroring = data % 2] ELSE m
        ELSE IF addr <= 57343
        THEN IF isEven THEN [m EXCEPT !.irqLatch = data]
             ELSE [m EXCEPT !.irqReload = TRUE]
        ELSE IF isEven THEN [m EXCEPT !.irqEnabled = FALSE, !.irqPending = FALSE]
             ELSE [m EXCEPT !.irqEnabled = TRUE]

\* mmc3.getCHRBank: the 1 KiB bank of a pattern-table address.
MMC3GetCHRBank(m, addr) ==
    LET k    == addr \div 1024
        slot == IF m.chrInversion THEN (k + 4) % 8 ELSE k
        even(r) == m.registers[r] - (m.registers[r] % 2)
        reg  == CASE slot = 0 -> even(0)
                  [] slot = 1 -> even(0) + 1
                  [] slot = 2 -> even(1)
                  [] slot = 3 -> even(1) + 1
                  [] OTHER    -> m.registers[slot - 2]
    IN  IF m.chrBanks = 0 THEN -1 ELSE reg % m.chrBanks

\* mmc3.PPUMapRead and PPUMapWrite: the byte indexed after checkA12.
MMC3PPUMap(cart, m, addr) ==
    Index("chr", cart.CHRROM, MMC3GetCHRBank(m, addr) * 1024 + (addr % 1024))

\* Mapper.CPUMapRead of the cartridge's mapper.
CPUMapRead(cart, m, addr) ==
    CASE cart.kind \in {"nrom", "cnrom"} -> NROMCPUMapRead(cart, m, addr)
      [] cart.kind = "uxrom" -> UxROMCPUMapRead(cart, m, addr)
      [] cart.kind = "mmc1"  -> MMC1CPUMap(cart, m, addr)
      [] OTHER               -> MMC3CPUMapRead(cart, m, addr)

\* Mapper.CPUMapWrite: the mapper after the write and the slice written.
CPUMapWrite(cart, m, addr, data) ==
    LET port == IF addr >= 32768 THEN Latched ELSE Unmapped
    IN  CASE cart.kind = "nrom"  -> [m |-> m, r |-> Unmapped]
          [] cart.kind = "uxrom" -> [m |-> UxROMCPUMapWrite(m, addr, data), r |-> port]
          [] cart.kind = "cnrom" -> [m |-> CNROMCPUMapWrite(m, addr, data), r |-> port]
          [] cart.kind = "mmc1"  ->
               [m |-> MMC1CPUMapWrite(m, addr, data),
                r |-> IF addr >= 32768 THEN Latched
                      ELSE IF addr >= 24576 /\ ~m.wramDisabled
                      THEN Index("wram", 8192, addr - 24576)
                      ELSE Unmapped]
          [] OTHER ->
               [m |-> MMC3CPUMapWrite(m, addr, data),
                r |-> IF addr >= 32768 THEN Latched
                      ELSE IF addr >= 24576 THEN Index("wram", 8192, addr - 24576)
                      ELSE Unmapped]

\* Mapper.PPUMapRead for a pattern-table address.
PPUMapRead(cart, m, addr) ==
    CASE cart.kind \in {"nrom", "uxrom"} ->
           [m |-> m, r |-> Index("chr", cart.CHRROM, addr)]
      [] cart.kind = "cnrom" -> [m |-> m, r |-> CNROMPPUMap(cart, m, addr)]
      [] cart.kind = "mmc1"  -> [m |-> m, r |-> MMC1PPUMap(cart, m, addr)]
      [] OTHER -> [m |-> MMC3CheckA12(m, addr), r |-> MMC3PPUMap(cart, m, addr)]

\* Mapper.PPUMapWrite for a pattern-table address.
PPUMapWrite(cart, m, addr) ==
    CASE cart.kind \in {"nrom", "uxrom"} ->
           [m |-> m, r |-> IF cart.CHRROM = 8192 THEN Index("chr", cart.CHRROM, addr)
                           ELSE Unmapped]
      [] cart.kind = "cnrom" ->
           [m |-> m, r |-> IF cart.CHRROM = 8192 THEN CNROMPPUMap(cart, m, addr)
                           ELSE Unmapped]
      [] cart.kind = "mmc1" ->
           [m |-> m, r |-> IF cart.IsCHRRAM THEN MMC1PPUMap(cart, m, addr)
                           ELSE Unmapped]
      [] OTHER ->
           [m |-> MMC3CheckA12(m, addr),
            r |-> IF cart.IsCHRRAM THEN MMC3PPUMap(cart, m, addr) ELSE Unmapped]

\* Mapper.Clock: mmc1 and mmc3 count, the others do nothing.
MapperClock(cart, m) ==
    CASE cart.kind = "mmc1" -> MMC1Clock(m)
      [] cart.kind = "mmc3" -> MMC3Clock(m)
      [] OTHER              -> m

-----------------------------------------------------------------------------
(* Cartridge harness: a file is loaded with cartridge.New and the mapper   *)
(* is then driven as Bus.Read, Bus.Write, the PPU and Bus.Clock drive it.   *)
(* A panic ends the run.  ex.plan holds the inputs of the run, ex.port the  *)
(* last byte written to $8000-$FFFF and ex.cartIRQ the interrupt line as    *)
(* the last CPU tick sampled it.                                            *)

MaxLoadSteps == 2

MaxBankSteps == 6

MaxIrqSteps == 6

MaxA12Delay == 2

FileSizes == {0, 15, 16, 16 + 16384, 16 + 512 + 16384, 16 + 16384 + 8192,
              16 + 32768 + 8192}

\* Files of every length, with and without the signature, the trainer bit
\* and mapper ids 0..5 and 16.
LoadFiles ==
    { f \in [size : FileSizes, signature : BOOLEAN, prg : 0..2, chr : 0..1,
             flags6 : {0, 4, 16, 32, 48, 64, 80}, flags7 : {0, 16}] :
        f.size = 0 => (~f.signature /\ f.prg = 0 /\ f.chr = 0
                         /\ f.flags6 = 0 /\ f.flags7 = 0) }

\* Complete dumps: 32 KiB of PRG, no CHR or 16 KiB of it, mapper ids 0..4.
BankFiles ==
    { [size |-> 16 + 32768 + c * 8192, signature |-> TRUE, prg |-> 2, chr |-> c,
       flags6 |-> 16 * id, flags7 |-> 0] : c \in {0, 2}, id \in 0..4 }

\* A complete MMC3 dump.
IrqFiles ==
    { [size |-> 16 + 32768 + 8192, signature |-> TRUE, prg |-> 2, chr |-> 1,
       flags6 |-> 64, flags7 |-> 0] }

LoadPlan ==
    [budget |-> MaxLoadSteps, reads |-> {24576, 32768, 65532},
     writes |-> {32768, 57344}, bytes |-> {0, 255}, patterns |-> {0, 8191}]

BankPlan ==
    [budget |-> MaxBankSteps, reads |-> {32768, 49152},
     writes |-> {32768, 32769, 40961, 57344}, bytes |-> {5, 6, 255},
     patterns |-> {0, 7168}]

IrqPlan ==
    [budget |-> MaxIrqSteps, reads |-> {32768},
     writes |-> {49152, 49153, 57344, 57345}, bytes |-> {0, 1},
     patterns |-> {0, 4096}]

CartInit(files, plan) ==
    /\ nes = NewBus
    /\ steps = 0
    /\ disk = NoFile
    /\ jlog = JlogNew
    /\ \E f \in files :
         ex = [phase |-> "cart", plan |-> plan, file |-> f, err |-> "none",
               cart |-> NoCartridge, m |-> NoMapper, op |-> "file",
               addr |-> 0, data |-> 0, r |-> Unmapped,
               port |-> 0, cartIRQ |-> FALSE]

\* The mapper can be driven: a cartridge was returned and nothing panicked.
CartRunning ==
    /\ ex.phase = "cart"
    /\ ex.op # "file"
    /\ ex.cart.kind # "none"
    /\ ~ex.r.panic
    /\ steps < ex.plan.budget

\* cartridge.New(path).
CartNew ==
    /\ ex.phase = "cart"
    /\ ex.op = "file"
    /\ LET res == CartridgeNew(ex.file)
       IN  ex' = [ex EXCEPT !.err = res.err, !.cart = res.cart,
                            !.m = IF res.err = "none" THEN NewMapperState(res.cart)
                                  ELSE NoMapper,
                            !.op = "new"]
    /\ UNCHANGED <<nes, steps, disk, jlog>>

\* Bus.Read reaching Mapper.CPUMapRead.
CartCPURead ==
    /\ CartRunning
    /\ \E addr \in ex.plan.reads :
         ex' = [ex EXCEPT !.op = "cpuread", !.addr = addr, !.data = 0,
                          !.r = CPUMapRead(ex.cart, ex.m, addr)]
    /\ steps' = steps + 1
    /\ UNCHANGED <<nes, disk, jlog>>

\* Bus.Write reaching Mapper.CPUMapWrite.
CartCPUWrite ==
    /\ CartRunning
    /\ \E addr \in ex.plan.writes, data \in ex.plan.bytes :
         LET w == CPUMapWrite(ex.cart, ex.m, addr, data)
         IN  ex' = [ex EXCEPT !.op = "cpuwrite", !.addr = addr, !.data = data,
                              !.m = w.m, !.r = w.r,
                              !.port = IF addr >= 32768 THEN data ELSE @]
    /\ steps' = steps + 1
    /\ UNCHANGED <<nes, disk, jlog>>

\* PPU.ppuRead reaching Mapper.PPUMapRead.
CartPPURead ==
    /\ CartRunning
    /\ \E addr \in ex.plan.patterns :
         LET p == PPUMapRead(ex.cart, ex.m, addr)
         IN  ex' = [ex EXCEPT !.op = "ppuread", !.addr = addr, !.data = 0,
                              !.m = p.m, !.r = p.r]
    /\ steps' = steps + 1
    /\ UNCHANGED <<nes, disk, jlog>>

\* PPU.ppuWrite reaching Mapper.PPUMapWrite.
CartPPUWrite ==
    /\ CartRunning
    /\ \E addr \in ex.plan.patterns, data \in ex.plan.bytes :
         LET p == PPUMapWrite(ex.cart, ex.m, addr)
         IN  ex' = [ex EXCEPT !.op = "ppuwrite", !.addr = addr, !.data = data,
                              !.m = p.m, !.r = p.r]
    /\ steps' = steps + 1
    /\ UNCHANGED <<nes, disk, jlog>>

\* Bus.Clock on a CPU tick: Mapper.Clock, then the interrupt line of the
\* cartridge is sampled for the CPU.
CartClock ==
    /\ CartRunning
    /\ ex.cart.kind = "mmc3" => (ex.m.lastA12 \/ ex.m.a12Delay < MaxA12Delay)
    /\ LET m == MapperClock(ex.cart, ex.m)
       IN  ex' = [ex EXCEPT !.op = "clock", !.addr = 0, !.data = 0,
                            !.m = m, !.r = Unmapped,
                            !.cartIRQ = MapperIRQPending(ex.cart.kind, m)]
    /\ UNCHANGED <<nes, steps, disk, jlog>>

CartNext ==
    CartNew \/ CartCPURead \/ CartCPUWrite \/ CartPPURead \/ CartPPUWrite
      \/ CartClock

LoadInit == CartInit(LoadFiles, LoadPlan)

SpecLoad == LoadInit /\ [][CartNext]_vars

BankInit == CartInit(BankFiles, BankPlan)

SpecBank == BankInit /\ [][CartNext]_vars

IrqInit == CartInit(IrqFiles, IrqPlan)

SpecIrq == IrqInit /\ [][CartNext]_vars

-----------------------------------------------------------------------------
(* Properties of SpecLoad *)

\* The file has been handed to cartridge.New.
Loaded == ex.phase = "cart" /\ ex.op # "file"

\* Offset of the PRG body: the header and the optional trainer.
BodyOffset(f) == IF Bit(f.flags6, 2) = 1 THEN 16 + 512 ELSE 16

\* C24: the loader rejects every file shorter than 16 bytes and every file
\* whose PRG body, after the header and the optional trainer, is shorter than
\* the PRG size its header declares.
C24_ShortFilesRejected ==
    (Loaded /\ (\/ ex.file.size < 16
                \/ ex.file.size - BodyOffset(ex.file) < ex.file.prg * 16384))
      => ex.err # "none"

\* C25: a mapper id outside 0..4 fails the load with an error and no
\* cartridge, and each id in 0..4 builds its own mapper.
C25_MapperIds ==
    (Loaded /\ ex.file.size >= 16 /\ ex.file.signature) =>
       LET id == MapperID(ex.file.flags6, ex.file.flags7)
       IN  IF id \in 0..4
           THEN /\ ex.err = "none"
                /\ ex.cart.kind = <<"nrom", "mmc1", "uxrom", "cnrom", "mmc3">>[id + 1]
           ELSE /\ ex.err = "unsupported mapper"
                /\ ex.cart = NoCartridge

\* C25's case: a well-formed file of mapper 5 was refused.
C25_Witness ==
    /\ Loaded
    /\ ex.file.size = 16 + 16384 + 8192 /\ ex.file.signature
    /\ ex.file.prg = 1 /\ ex.file.chr = 1
    /\ MapperID(ex.file.flags6, ex.file.flags7) = 5
    /\ ex.err = "unsupported mapper" /\ ex.cart = NoCartridge

\* C22: no access through the mapper of a loaded cartridge panics.
C22_NoPanic == Loaded => ~ex.r.panic

-----------------------------------------------------------------------------
(* Properties of SpecBank *)

\* The bank a window of the CPU address space shows, from the value held by
\* its bank-select register and the number of banks of the ROM; unit is the
\* size of the window's banks.
PrgWindow(cart, m, port, addr) ==
    CASE cart.kind = "uxrom" ->
           [unit |-> 16384,
            bank |-> IF addr < 49152 THEN port % (cart.PRGROM \div 16384)
                     ELSE (cart.PRGROM \div 16384) - 1]
      [] cart.kind = "mmc1" ->
           LET mode == (m.control \div 4) % 4
               n    == cart.PRGROM \div 16384
           IN  IF mode \in {0, 1}
               THEN [unit |-> 32768, bank |-> ((m.prgBank \div 2) % 8) % (n \div 2)]
               ELSE [unit |-> 16384,
                     bank |-> IF (mode = 2) = (addr >= 49152)
                              THEN (m.prgBank % 16) % n
                              ELSE IF mode = 2 THEN 0 ELSE n - 1]
      [] cart.kind = "mmc3" ->
           LET n == cart.PRGROM \div 8192
               w == (addr - 32768) \div 8192
           IN  [unit |-> 8192,
                bank |-> CASE w = 3 -> n - 1
                           [] w = 1 -> m.registers[7] % n
                           [] w = (IF m.prgBankMode THEN 2 ELSE 0) -> m.registers[6] % n
                           [] OTHER -> n - 2]
      [] OTHER -> [unit |-> 16384, bank |-> (addr - 32768) \div 16384]

\* The same for a window of the pattern tables.
ChrWindow(cart, m, port, addr) ==
    CASE cart.kind = "cnrom" ->
           [unit |-> 8192, bank |-> port % (cart.CHRROM \div 8192)]
      [] cart.kind = "mmc1" ->
           LET n == cart.CHRROM \div 4096
           IN  IF Bit(m.control, 4) = 0
               THEN [unit |-> 8192, bank |-> ((m.chrBank0 \div 2) % 16) % (n \div 2)]
               ELSE [unit |-> 4096,
                     bank |-> (IF addr < 4096 THEN m.chrBank0 ELSE m.chrBank1) % n]
      [] cart.kind = "mmc3" ->
           LET n == cart.CHRROM \div 1024
               k == addr \div 1024
               s == IF m.chrInversion THEN (k + 4) % 8 ELSE k
               v == IF s < 4
                    THEN 2 * (m.registers[s \div 2] \div 2) + (s % 2)
                    ELSE m.registers[s - 2]
           IN  [unit |-> 1024, bank |-> v % n]
      [] OTHER -> [unit |-> 8192, bank |-> 0]

-----------------------------------------------------------------------------
(* Save files of another format (Bus.LoadState, encoding/gob).  gob matches *)
(* the fields of the stream to those of State by name: a field State lacks  *)
(* is skipped without an error.  bus.State has no version field, so a       *)
(* version can reach LoadState only as such a field of a foreign file.      *)

ForeignVersions == {2, 99}

\* A file written by a build whose State carries a Version field appears.
SvForeignFile ==
    /\ steps < MaxSaveSteps
    /\ \E v \in ForeignVersions :
         disk' = [present |-> TRUE, state |-> SaveStateOp(nes) @@ [Version |-> v],
                  by |-> nes]
    /\ nes' = [nes EXCEPT !.obs.op = "foreign"]
    /\ steps' = steps + 1
    /\ UNCHANGED <<ex, jlog>>

VerNext == SaveNext \/ SvForeignFile

SpecVer == SaveInit /\ [][VerNext]_vars

\* C26: the save-state format is versioned and the loader rejects unknown
\* versions: a load that went through read a file whose version the build
\* knows, that is, a file of its own State.
C26_UnknownVersionRejected ==
    nes.obs.op = "load" => DOMAIN disk.state = DOMAIN SaveStateOp(nes)

-----------------------------------------------------------------------------
(* Properties of SpecIrq *)

\* The step is a CPU write to an even address of $E000-$FFFF: the MMC3
\* interrupt disable and acknowledge.
IsIrqAcknowledge ==
    ex'.op = "cpuwrite" /\ ex'.addr >= 57344 /\ ex'.addr % 2 = 0

\* The step is a PPU access whose A12 edge clocks the scanline counter.
IsScanlineClock ==
    /\ ex'.op \in {"ppuread", "ppuwrite"}
    /\ Bit(ex'.addr, 12) = 1 /\ ~ex.m.lastA12 /\ ex.m.a12Delay >= 2

\* C28: once the MMC3 scanline counter is clocked to 0 with IRQs enabled the
\* mapper's interrupt is pending, and it stays pending and is seen at every
\* CPU tick until a write to even $E000-$FFFF clears it: A12 edges, reloads
\* and the CPU's sampling of the line do not take it back.
C28_IrqSticks ==
    [][(Loaded /\ ex.cart.kind = "mmc3") =>
         /\ (IsScanlineClock /\ ex'.m.irqCounter = 0 /\ ex.m.irqEnabled)
              => ex'.m.irqPending
         /\ (ex.m.irqPending /\ ~IsIrqAcknowledge) => ex'.m.irqPending
         /\ (ex.m.irqPending /\ ex'.op = "clock") => ex'.cartIRQ
         /\ IsIrqAcknowledge => ~ex'.m.irqPending]_vars

\* C28's case: with the interrupt pending the latch was set to 1 and the
\* counter was clocked at the next A12 edge, reloading it to 1; the line is
\* still pending at the CPU tick that follows.
C28_Witness ==
    /\ Loaded
    /\ ex.cart.kind = "mmc3"
    /\ ex.op = "clock" /\ ex.cartIRQ
    /\ ex.m.irqPending /\ ex.m.irqEnabled
    /\ ex.m.irqLatch = 1 /\ ex.m.irqCounter = 1

-----------------------------------------------------------------------------
(* APU registers and frame sequencer (apu/apu.go: APU.Clock, CPURead,      *)
(* CPUWrite, SetEnabled, cpuWrite).  Of each channel this view keeps the    *)
(* enable flag, the length counter and its halt flag; of the DMC the enable *)
(* flag, the bytes remaining and the sample length.  Timers, envelopes,     *)
(* sweeps and the sample output are not in view.                            *)

lengthCounterTable ==
    <<10, 254, 20, 2, 40, 4, 80, 6, 160, 8, 60, 10, 14, 12, 26, 14,
      12, 16, 24, 18, 48, 20, 96, 22, 192, 24, 72, 26, 16, 28, 32, 30>>

NewChannel == [enabled |-> FALSE, lengthCounter |-> 0, lengthCounterHalt |-> FALSE]

\* apu.New.
NewAPUUnit ==
    [DmcIRQ |-> FALSE, FrameIRQ |-> FALSE, dmcIrqPending |-> FALSE,
     cycle |-> 0, frameCounter |-> 0, sequenceMode |-> 0, irqInhibit |-> FALSE,
     pulse1 |-> NewChannel, pulse2 |-> NewChannel, triangle |-> NewChannel,
     noise |-> NewChannel,
     dmc |-> [enabled |-> FALSE, bytesRemaining |-> 0, sampleLength |-> 0]]

\* a.pulse1.SetEnabled(data&mask == 1): the argument is true when the masked
\* byte equals 1.
ChannelSetEnabled(ch, data, mask) ==
    LET enabled == ((data \div mask) % 2) * mask = 1
    IN  [ch EXCEPT !.enabled = enabled,
                   !.lengthCounter = IF enabled THEN @ ELSE 0]

\* a.dmc.SetEnabled(data&0x10 == 1).
DMCSetEnabled(d, data) ==
    LET enabled == Bit(data, 4) * 16 = 1
    IN  IF ~enabled THEN [d EXCEPT !.enabled = FALSE, !.bytesRemaining = 0]
        ELSE [d EXCEPT !.enabled = TRUE,
                       !.bytesRemaining = IF @ = 0 THEN d.sampleLength ELSE @]

\* clockLength that does not look at the counter before it decrements.
ChannelClockLengthNoFloor(ch) ==
    IF ~ch.lengthCounterHalt
    THEN [ch EXCEPT !.lengthCounter = @ - 1]
    ELSE ch

\* clockLength of one channel.
ChannelClockLength(ch) ==
    IF ~ch.lengthCounterHalt /\ ch.lengthCounter > 0
    THEN [ch EXCEPT !.lengthCounter = @ - 1]
    ELSE ch

\* APU.clockLengthAndSweeps.
APUClockLength(a) ==
    [a EXCEPT !.pulse1 = ChannelClockLength(@), !.pulse2 = ChannelClockLength(@),
              !.triangle = ChannelClockLength(@), !.noise = ChannelClockLength(@)]

\* The write of a channel's fourth register: the length counter is loaded
\* when the channel is enabled.
ChannelLoadLength(ch, data) ==
    IF ch.enabled
    THEN [ch EXCEPT !.lengthCounter = lengthCounterTable[((data \div 8) % 32) + 1]]
    ELSE ch

\* APU.Clock whose 5-step sequence ends like the 4-step one.
APUUnitClockAnyMode(a, dmcFetch, dmcEnd) ==
    LET fetch == dmcFetch /\ a.dmc.bytesRemaining > 0
        a1 == APUClockDmc([a EXCEPT !.dmc.bytesRemaining = IF fetch THEN @ - 1 ELSE @],
                          fetch /\ a.dmc.bytesRemaining = 1 /\ dmcEnd)
        fc == a1.frameCounter + 1
        last == IF a1.sequenceMode = 0 THEN 14915 ELSE 18641
        a2 == IF a1.cycle % 2 # 0 THEN a1
              ELSE IF fc = 7457 THEN APUClockLength([a1 EXCEPT !.frameCounter = fc])
              ELSE IF fc = last
              THEN APUClockFrame(APUClockLength([a1 EXCEPT !.frameCounter = 0]),
                                 ~a1.irqInhibit)
              ELSE [a1 EXCEPT !.frameCounter = fc]
    IN  [a2 EXCEPT !.cycle = (@ + 1) % 2]

\* APU.Clock.  dmcFetch: the DMC's timer and bit counter let it fetch a
\* byte on this cycle; dmcEnd: the sample ran out with loop off and the
\* DMC interrupt enabled.
APUUnitClock(a, dmcFetch, dmcEnd) ==
    LET fetch == dmcFetch /\ a.dmc.bytesRemaining > 0
        a1 == APUClockDmc([a EXCEPT !.dmc.bytesRemaining = IF fetch THEN @ - 1 ELSE @],
                          fetch /\ a.dmc.bytesRemaining = 1 /\ dmcEnd)
        fc == a1.frameCounter + 1
        last == IF a1.sequenceMode = 0 THEN 14915 ELSE 18641
        a2 == IF a1.cycle % 2 # 0 THEN a1
              ELSE IF fc = 7457 THEN APUClockLength([a1 EXCEPT !.frameCounter = fc])
              ELSE IF fc = last
              THEN APUClockFrame(APUClockLength([a1 EXCEPT !.frameCounter = 0]),
                                 a1.sequenceMode = 0 /\ ~a1.irqInhibit)
              ELSE [a1 EXCEPT !.frameCounter = fc]
    IN  [a2 EXCEPT !.cycle = (@ + 1) % 2]

\* APU.CPURead($4015): the status byte and the APU after the read.
APUUnitRead(a) ==
    [data |-> B2N(a.pulse1.lengthCounter > 0) + 2 * B2N(a.pulse2.lengthCounter > 0)
                + 4 * B2N(a.triangle.lengthCounter > 0)
                + 8 * B2N(a.noise.lengthCounter > 0)
                + 16 * B2N(a.dmc.bytesRemaining > 0)
                + 64 * B2N(a.FrameIRQ) + 128 * B2N(a.DmcIRQ),
     a |-> APUStatusReadFrame(APUCPURead(a))]

\* APU.CPUWrite.
APUUnitWrite(a, addr, data) ==
    CASE addr = 16384 ->
           [a EXCEPT !.pulse1.lengthCounterHalt = Bit(data, 5) = 1]
      [] addr = 16387 -> [a EXCEPT !.pulse1 = ChannelLoadLength(@, data)]
      [] addr = 16391 -> [a EXCEPT !.pulse2 = ChannelLoadLength(@, data)]
      [] addr = 16395 -> [a EXCEPT !.triangle = ChannelLoadLength(@, data)]
      [] addr = 16399 -> [a EXCEPT !.noise = ChannelLoadLength(@, data)]
      [] addr = 16403 -> [a EXCEPT !.dmc.sampleLength = data * 16 + 1]
      [] addr = 16405 ->
           APUCPUWrite([a EXCEPT !.pulse1 = ChannelSetEnabled(@, data, 1),
                                 !.pulse2 = ChannelSetEnabled(@, data, 2),
                                 !.triangle = ChannelSetEnabled(@, data, 4),
                                 !.noise = ChannelSetEnabled(@, data, 8),
                                 !.dmc = DMCSetEnabled(@, data)])
      [] addr = 16407 ->
           LET w == [a EXCEPT !.sequenceMode = Bit(data, 7),
                              !.irqInhibit = Bit(data, 6) = 1,
                              !.frameCounter = 0]
           IN  IF Bit(data, 7) = 1 THEN APUClockLength(w) ELSE w
      [] OTHER -> a

-----------------------------------------------------------------------------
(* APU harness: the APU after power-on, a first $4017 write and a run of   *)
(* idle cycles, then driven by APU.Clock and the CPU's register accesses.   *)

MaxApuSteps == 5

\* Bytes written: channel-enable patterns, length indices 0 and 1, and the
\* four frame-counter modes.
ApuBytes == {0, 1, 2, 8, 31, 64, 128, 192}

ApuWriteAddrs == {16387, 16391, 16405, 16407}

RECURSIVE ApuRunN(_, _)
\* n times APU.Clock with the DMC idle.
ApuRunN(a, n) ==
    IF n = 0 THEN a
    ELSE IF n = 1 THEN APUUnitClock(a, FALSE, FALSE)
    ELSE LET t == ApuRunN(a, n \div 2)
         IN  \* the test makes the evaluator compute t before it goes on
             IF t.cycle < 0 THEN t ELSE ApuRunN(t, n - (n \div 2))

\* Start states: w is the byte of a first write to $4017 (-1: none), ticks
\* the idle cycles since.  29826 cycles bring the frame counter to 14913,
\* 37278 to 18639: two counts before the last step of each sequence.
ApuStarts ==
    {[w |-> -1, ticks |-> 0], [w |-> -1, ticks |-> 29826],
     [w |-> 64, ticks |-> 29826], [w |-> 128, ticks |-> 29826],
     [w |-> 128, ticks |-> 37278], [w |-> 192, ticks |-> 37278]}

ApuAfter(w, ticks) ==
    ApuRunN(IF w < 0 THEN NewAPUUnit ELSE APUUnitWrite(NewAPUUnit, 16407, w), ticks)

ApuInit ==
    /\ nes = NewBus
    /\ steps = 0
    /\ disk = NoFile
    /\ jlog = JlogNew
    /\ \E s \in ApuStarts :
         ex = [phase |-> "apu", a |-> ApuAfter(s.w, s.ticks), op |-> "start",
               addr |-> 0, data |-> 0]

\* Bus.Clock on a CPU tick: APU.Clock.
ApuClock ==
    /\ ex.phase = "apu"
    /\ steps < MaxApuSteps
    /\ \E dmcFetch \in BOOLEAN, dmcEnd \in BOOLEAN :
         ex' = [ex EXCEPT !.a = APUUnitClock(ex.a, dmcFetch, dmcEnd),
                          !.op = "clock", !.addr = 0, !.data = 0]
    /\ steps' = steps + 1
    /\ UNCHANGED <<nes, disk, jlog>>

\* Bus.Write of an APU register: APU.CPUWrite.
ApuWrite ==
    /\ ex.phase = "apu"
    /\ steps < MaxApuSteps
    /\ \E addr \in ApuWriteAddrs, data \in ApuBytes :
         ex' = [ex EXCEPT !.a = APUUnitWrite(ex.a, addr, data),
                          !.op = "write", !.addr = addr, !.data = data]
    /\ steps' = steps + 1
    /\ UNCHANGED <<nes, disk, jlog>>

\* Bus.Read of $4015: APU.CPURead.
ApuRead ==
    /\ ex.phase = "apu"
    /\ steps < MaxApuSteps
    /\ ex' = [ex EXCEPT !.a = APUUnitRead(ex.a).a, !.op = "read",
                        !.addr = 16405, !.data = APUUnitRead(ex.a).data]
    /\ steps' = steps + 1
    /\ UNCHANGED <<nes, disk, jlog>>

ApuNext == ApuClock \/ ApuWrite \/ ApuRead

SpecApu == ApuInit /\ [][ApuNext]_vars

C30_Enables ==
    (ex.phase = "apu" /\ ex.op = "write" /\ ex.addr = 16405) =>
       LET ch == <<ex.a.pulse1, ex.a.pulse2, ex.a.triangle, ex.a.noise>>
       IN  /\ \A k \in 1..4 :
                /\ ch[k].enabled = (Bit(ex.data, k - 1) = 1)
                /\ Bit(ex.data, k - 1) = 0 => ch[k].lengthCounter = 0
           /\ ex.a.dmc.enabled = (Bit(ex.data, 4) = 1)
           /\ Bit(ex.data, 4) = 0 => ex.a.dmc.bytesRemaining = 0

-----------------------------------------------------------------------------
(* Interrupt entry and flag restore, on the CPU of SpecRegs.               *)

\* C33: opcode $00 (BRK) pushes the address of the opcode plus 2 (high byte,
\* then low byte), then P with B and U set, sets I and takes 7 cycles.
C33_BrkEntry ==
    [][(ex'.src = "step" /\ ex'.op = 0) =>
         LET ret == (ex.m.c.PC + 2) % 65536
             sp == ex.m.c.SP
         IN  /\ ex'.m.c.SP = (sp + 253) % 256
             /\ ex'.m.stack[sp] = ret \div 256
             /\ ex'.m.stack[(sp + 255) % 256] = ret % 256
             /\ Bit(ex'.m.stack[(sp + 254) % 256], 4) = 1
             /\ Bit(ex'.m.stack[(sp + 254) % 256], 5) = 1
             /\ Bit(ex'.m.c.P, 2) = 1
             /\ ex'.cycles = 7]_vars

\* C34: NMI entry pushes PC high, PC low, then P with B clear and U set,
\* sets I, loads PC from the NMI vector, and 7 CPU cycles pass, the one of
\* the entry included, before CPU.Clock fetches the handler's first opcode.
C34_NmiEntry ==
    [][ex'.src = "nmi" =>
         LET sp == ex.m.c.SP
             b == ex'.m.stack[(sp + 254) % 256]
         IN  /\ ex'.m.c.SP = (sp + 253) % 256
             /\ ex'.m.stack[sp] = ex.m.c.PC \div 256
             /\ ex'.m.stack[(sp + 255) % 256] = ex.m.c.PC % 256
             /\ Bit(b, 4) = 0 /\ Bit(b, 5) = 1
             /\ Bit(ex'.m.c.P, 2) = 1
             /\ ex'.m.c.PC = RegNmiVector
             /\ ex'.cycles = 7]_vars

\* C38: PLP and RTI leave C, Z, I, D, V and N (bits 0, 1, 2, 3, 6, 7 of P)
\* equal to those bits of the byte popped, whatever its bits 4 and 5, and
\* leave U (bit 5 of P) set.
C38_FlagsRestored ==
    [][(ex'.src = "step" /\ OpOperate(ex'.op) \in {"plp", "rti"}) =>
         LET b == ex.m.stack[(ex.m.c.SP + 1) % 256]
         IN  /\ ex'.m.c.P % 16 = b % 16
             /\ ex'.m.c.P \div 64 = b \div 64
             /\ Bit(ex'.m.c.P, 5) = 1]_vars

-----------------------------------------------------------------------------
(* SpecA12: the MMC3 scanline counter as the PPU's pattern-table accesses,  *)
(* the CPU ticks and the IRQ register writes drive it.  ex.low is the       *)
(* number of CPU ticks A12 had been low before the access (-1: it was       *)
(* high), ex.count and ex.reload the counter and the reload request before  *)
(* it.                                                                      *)

MaxA12Steps == 7

MaxA12Low == 3

\* Pattern-table addresses with A12 low and high.
A12Patterns == {0, 4096, 8191}

\* $C000 latch, $C001 reload, $E000 disable, $E001 enable.
A12Writes == {49152, 49153, 57344, 57345}

A12Bytes == {0, 1, 2}

A12Init ==
    /\ nes = NewBus
    /\ steps = 0
    /\ disk = NoFile
    /\ jlog = JlogNew
    /\ \E f \in IrqFiles :
         LET cart == CartridgeNew(f).cart
         IN  ex = [phase |-> "a12", cart |-> cart, m |-> NewMapperState(cart),
                   op |-> "new", addr |-> 0, data |-> 0,
                   low |-> 0, count |-> 0, reload |-> FALSE]

\* PPU.ppuRead or ppuWrite below $2000: Mapper.PPUMapRead / PPUMapWrite.
A12Access ==
    /\ ex.phase = "a12"
    /\ steps < MaxA12Steps
    /\ \E addr \in A12Patterns, write \in BOOLEAN :
         LET p == IF write THEN PPUMapWrite(ex.cart, ex.m, addr)
                  ELSE PPUMapRead(ex.cart, ex.m, addr)
         IN  ex' = [ex EXCEPT !.m = p.m, !.op = "access", !.addr = addr,
                              !.data = 0,
                              !.low = IF ex.m.lastA12 THEN -1 ELSE ex.m.a12Delay,
                              !.count = ex.m.irqCounter,
                              !.reload = ex.m.irqReload]
    /\ steps' = steps + 1
    /\ UNCHANGED <<nes, disk, jlog>>

\* Bus.Clock on a CPU tick: Mapper.Clock.
A12Clock ==
    /\ ex.phase = "a12"
    /\ ~ex.m.lastA12
    /\ ex.m.a12Delay < MaxA12Low
    /\ ex' = [ex EXCEPT !.m = MapperClock(ex.cart, ex.m), !.op = "clock",
                        !.addr = 0, !.data = 0,
                        !.low = 0, !.count = 0, !.reload = FALSE]
    /\ UNCHANGED <<nes, steps, disk, jlog>>

\* Bus.Write to an MMC3 IRQ register: Mapper.CPUMapWrite.
A12Write ==
    /\ ex.phase = "a12"
    /\ steps < MaxA12Steps
    /\ \E addr \in A12Writes, data \in A12Bytes :
         /\ addr # 49152 => data = 0
         /\ ex' = [ex EXCEPT !.m = CPUMapWrite(ex.cart, ex.m, addr, data).m,
                             !.op = "write", !.addr = addr, !.data = data,
                             !.low = 0, !.count = 0, !.reload = FALSE]
    /\ steps' = steps + 1
    /\ UNCHANGED <<nes, disk, jlog>>

A12Next == A12Access \/ A12Clock \/ A12Write

SpecA12 == A12Init /\ [][A12Next]_vars

\* C35: a12Delay counts the CPU ticks since A12 went low.  A pattern-table
\* access that raises A12 after at least 2 such ticks clocks the scanline
\* counter: it is reloaded from the latch if it was 0 or a reload was
\* requested (the request is then cleared), otherwise decremented by one.
\* Every other access, a rising edge after fewer than 2 ticks included,
\* leaves the counter and the reload request as they were.
C35_ScanlineCounter ==
    [][/\ ex'.op = "clock" =>
            ex'.m.a12Delay = IF ex.m.lastA12 THEN 0 ELSE ex.m.a12Delay + 1
       /\ ex'.op = "access" =>
            LET rising == Bit(ex'.addr, 12) = 1 /\ ~ex.m.lastA12
                clocks == rising /\ ex.m.a12Delay >= 2
                reload == ex.m.irqCounter = 0 \/ ex.m.irqReload
            IN  /\ ex'.m.lastA12 = (Bit(ex'.addr, 12) = 1)
                /\ ex'.m.a12Delay = IF ex'.m.lastA12 \/ ex.m.lastA12 THEN 0
                                    ELSE ex.m.a12Delay
                /\ ex'.m.irqCounter =
                     IF ~clocks THEN ex.m.irqCounter
                     ELSE IF reload THEN ex.m.irqLatch
                     ELSE ex.m.irqCounter - 1
                /\ ex'.m.irqReload = (ex.m.irqReload /\ ~clocks)]_vars

\* C35's case: A12 rose after 2 or more CPU ticks low while the counter was
\* 2 with no reload requested, and the counter is now 1.
C35_Witness ==
    /\ ex.phase = "a12"
    /\ ex.op = "access" /\ Bit(ex.addr, 12) = 1
    /\ ex.low >= 2 /\ ex.count = 2 /\ ~ex.reload
    /\ ex.m.irqCounter = 1

-----------------------------------------------------------------------------
(* SpecEval: sprite evaluation of one scanline (PPU.Clock, dots 257..320).  *)
(* Of each OAM entry this view keeps its number and its Y byte; ex.oam      *)
(* gives the Y bytes of entries 0, 1, 2..7, 8, 9 and 63, the entries 10..62 *)
(* lie below the picture.  The PPU record keeps what evaluation reads and   *)
(* writes; it starts at dot 257 with what the scanline before left behind.  *)

\* Scanlines evaluated: the pre-render one and a visible one.
EvalLines == {-1, 20}

\* Y bytes: 0 holds scanline 0; 18 holds scanline 21; 10 holds scanline 21
\* only if the sprite is 16 rows high.  An entry at Y = 200 holds neither.
EvalYs == {0, 10, 18}

\* PPUCTRL: nothing set, bit 3, bit 5 (the sprite size), NMI enable.
EvalCtrls == {0, 8, 32, 128}

EvalOams ==
    [y0 : EvalYs \cup {200}, y1 : EvalYs, ya : EvalYs, y8 : EvalYs,
     y9 : EvalYs \cup {200}, y63 : {0, 18, 200}]

\* p.oam[4 * n]: the Y byte of OAM entry n.
OamY(oam, n) ==
    CASE n = 0 -> oam.y0
      [] n = 1 -> oam.y1
      [] n >= 2 /\ n <= 7 -> oam.ya
      [] n = 8 -> oam.y8
      [] n = 9 -> oam.y9
      [] n = 63 -> oam.y63
      [] OTHER -> 200

\* The part of PPU.Clock at dots 257..320 of scanlines -1..239 that
\* evaluates OAM entry Cycle - 257, and the p.Cycle++ at its end.
PPUEvaluate(p, oam) ==
    IF p.Cycle >= 257 /\ p.Cycle <= 320 /\ p.Scanline >= -1 /\ p.Scanline < 240
    THEN LET a == IF p.Cycle = 257
                  THEN [p EXCEPT !.spriteScanline = <<>>, !.spriteCount = 0,
                                 !.sprite0InScanline = FALSE,
                                 !.Status = ClrBit(@, 5)]
                  ELSE p
             n == p.Cycle - 257
             y == OamY(oam, n)
             spriteHeight == IF Bit(p.Ctrl, 3) = 1 THEN 16 ELSE 8
             inRange == p.Scanline + 1 >= y /\ p.Scanline + 1 < y + spriteHeight
             fits == inRange /\ a.spriteCount < 8
         IN  [a EXCEPT
                !.spriteScanline = IF fits THEN Append(@, [n |-> n, y |-> y])
                                   ELSE @,
                !.sprite0InScanline = IF fits /\ n = 0 THEN TRUE ELSE @,
                !.spriteCount = IF inRange THEN @ + 1 ELSE @,
                !.Status = IF inRange /\ a.spriteCount + 1 > 8
                           THEN SetBit(@, 5) ELSE @,
                !.Cycle = @ + 1]
    ELSE [p EXCEPT !.Cycle = @ + 1]

\* What the scanline before can leave: nothing, or nine sprites found.
EvalLeftovers ==
    { [spriteScanline |-> <<>>, spriteCount |-> 0, sprite0InScanline |-> FALSE,
       Status |-> 0],
      [spriteScanline |-> [i \in 1..8 |-> [n |-> i - 1, y |-> 18]],
       spriteCount |-> 9, sprite0InScanline |-> TRUE, Status |-> 32] }

EvalInit ==
    /\ nes = NewBus
    /\ steps = 0
    /\ disk = NoFile
    /\ jlog = JlogNew
    /\ \E oam \in EvalOams, line \in EvalLines, ctrl \in EvalCtrls,
          left \in EvalLeftovers :
         ex = [phase |-> "eval", oam |-> oam,
               p |-> [Scanline |-> line, Cycle |-> 257, Ctrl |-> ctrl,
                      Status |-> left.Status,
                      spriteScanline |-> left.spriteScanline,
                      spriteCount |-> left.spriteCount,
                      sprite0InScanline |-> left.sprite0InScanline]]

\* PPU.Clock on one of the dots 257..320.
EvalClock ==
    /\ ex.phase = "eval"
    /\ ex.p.Cycle <= 320
    /\ ex' = [ex EXCEPT !.p = PPUEvaluate(ex.p, ex.oam)]
    /\ UNCHANGED <<nes, steps, disk, jlog>>

EvalNext == EvalClock

SpecEval == EvalInit /\ [][EvalNext]_vars

\* The numbers of a set of OAM entries in increasing order.
RECURSIVE InOamOrder(_)
InOamOrder(S) ==
    IF S = {} THEN <<>>
    ELSE LET n == CHOOSE x \in S : \A z \in S : x <= z
         IN  <<n>> \o InOamOrder(S \ {n})

\* The OAM entries looked at so far whose rows, height of them, hold the
\* next scanline.
EvalQualifying(height) ==
    { n \in 0..(ex.p.Cycle - 258) :
        /\ ex.p.Scanline + 1 >= OamY(ex.oam, n)
        /\ ex.p.Scanline + 1 < OamY(ex.oam, n) + height }

\* C36: from dot 257 on, the secondary OAM holds, in OAM order, the first 8
\* (or all, if fewer) of the entries looked at whose rows hold the next
\* scanline, 16 rows if the sprite-size bit of PPUCTRL (bit 5) is set and 8
\* otherwise; the overflow flag is set exactly when 9 or more of them do.
C36_SpriteEval ==
    (ex.phase = "eval" /\ ex.p.Cycle >= 258) =>
      LET q == InOamOrder(EvalQualifying(IF Bit(ex.p.Ctrl, 5) = 1 THEN 16 ELSE 8))
          k == IF Len(q) < 8 THEN Len(q) ELSE 8
      IN  /\ Len(ex.p.spriteScanline) = k
          /\ \A i \in 1..k : ex.p.spriteScanline[i].n = q[i]
          /\ (Bit(ex.p.Status, 5) = 1) = (Len(q) >= 9)

-----------------------------------------------------------------------------
(* SpecHit: the pixels of one scanline (PPU.renderPixel, dots 1..256).  Of  *)
(* a sprite of the secondary OAM this view keeps its OAM number n, its X    *)
(* and the pattern pixel px it shows on its 8 columns; of the background    *)
(* the pattern pixel bg the shifters give on every dot.                     *)

\* X bytes: two sprites that overlap, one that reaches the right edge.
HitXs == {96, 100, 250}

\* Secondary OAMs: of OAM entries 0, 1 and 2 those selected, in OAM order.
HitSprites ==
    LET entry(n) == { <<>> } \cup
                    { << [n |-> n, x |-> x, px |-> px] >> : x \in HitXs, px \in {0, 1} }
    IN  { a \o b \o c : a \in entry(0), b \in entry(1), c \in entry(2) }

\* PPUMASK: both layers off, background only, sprites only, both.
HitMasks == {0, 8, 16, 24}

\* The sprite loop of renderPixel from slot i on: the first slot whose
\* columns hold the dot and whose pixel is not 0, or 0 if there is none.
RECURSIVE SpriteSlot(_, _, _)
SpriteSlot(sprites, cycle, i) ==
    IF i > Len(sprites) THEN 0
    ELSE IF cycle - 1 >= sprites[i].x /\ cycle - 1 < sprites[i].x + 8
              /\ sprites[i].px # 0
         THEN i
         ELSE SpriteSlot(sprites, cycle, i + 1)

\* bgPixel of renderPixel.
BgPixel(p, bg) == IF Bit(p.Mask, 3) = 1 THEN bg ELSE 0

\* spPixel of renderPixel after the sprite loop.
SpPixel(p) ==
    LET i == IF Bit(p.Mask, 4) = 1 THEN SpriteSlot(p.spriteScanline, p.Cycle, 1)
             ELSE 0
    IN  IF i = 0 THEN 0 ELSE p.spriteScanline[i].px

\* PPU.Clock on a dot of a scanline below 240: renderPixel on dots 1..256,
\* then p.Cycle++.
PPUPixel(p, bg) ==
    LET hit == /\ p.Scanline < 240 /\ p.Cycle >= 1 /\ p.Cycle <= 256
               /\ BgPixel(p, bg) # 0 /\ SpPixel(p) # 0
               /\ p.sprite0InScanline /\ ~p.spriteZeroHit /\ p.Cycle < 255
    IN  [p EXCEPT !.spriteZeroHit = IF hit THEN TRUE ELSE @, !.Cycle = @ + 1]

HitInit ==
    /\ nes = NewBus
    /\ steps = 0
    /\ disk = NoFile
    /\ jlog = JlogNew
    /\ \E sprites \in HitSprites, bg \in {0, 1}, mask \in HitMasks :
         ex = [phase |-> "hit", bg |-> bg,
               p |-> [Scanline |-> 21, Cycle |-> 1, Mask |-> mask,
                      spriteScanline |-> sprites,
                      sprite0InScanline |-> (\E i \in 1..Len(sprites) :
                                                sprites[i].n = 0),
                      spriteZeroHit |-> FALSE]]

HitClock ==
    /\ ex.phase = "hit"
    /\ ex.p.Cycle <= 256
    /\ ex' = [ex EXCEPT !.p = PPUPixel(ex.p, ex.bg)]
    /\ UNCHANGED <<nes, steps, disk, jlog>>

HitNext == HitClock

SpecHit == HitInit /\ [][HitNext]_vars

\* C37: on a dot of the picture the sprite-0-hit flag turns from clear to
\* set exactly when the first opaque sprite pixel on that dot is of OAM
\* entry 0, the background pixel is opaque, rendering is enabled and the dot
\* is not 255.
C37_SpriteZeroHit ==
    [][(ex.phase = "hit" /\ ~ex.p.spriteZeroHit) =>
         LET i == IF Bit(ex.p.Mask, 4) = 1
                  THEN SpriteSlot(ex.p.spriteScanline, ex.p.Cycle, 1) ELSE 0
         IN  ex'.p.spriteZeroHit <=>
               /\ i # 0 /\ ex.p.spriteScanline[i].n = 0
               /\ BgPixel(ex.p, ex.bg) # 0
               /\ RenderingEnabled(ex.p)
               /\ ex.p.Cycle # 255]_vars

-----------------------------------------------------------------------------
(* SpecEject: cartridges are inserted and ejected while the emulator runs.  *)
(* ex.panic: the Go runtime has stopped the program with a nil pointer      *)
(* dereference; nothing runs after it.                                      *)

MaxEjectSteps == 5

\* PPU.Reset: the registers, the dot counter and the sprite count; OAM and
\* p.spriteZeroHit are left alone.
PPUReset(p) ==
    [NewPPU EXCEPT !.oamY = p.oamY, !.spriteZeroHit = p.spriteZeroHit]

\* PPU.ConnectCartridge: after p.cart = cart it evaluates
\* p.cart.Mapper.GetMirroring(), which dereferences cart.
PPUConnectCartridgePanics(cart) == cart = "none"

\* Bus.PowerOff: $4015 <- 0, PPU.Reset, RAM cleared.
PowerOffOp(b) == [b EXCEPT !.apu = APUCPUWrite(@), !.ppu = PPUReset(@)]

\* Bus.EjectCartridge: PowerOff, b.cart = nil, PPU.ConnectCartridge(nil).
EjectCartridgeOp(b) ==
    [b |-> [PowerOffOp(b) EXCEPT !.cart = "none", !.mapper = NoMapper,
                                 !.obs.op = "eject", !.obs.access = NoAccess],
     panic |-> PPUConnectCartridgePanics("none")]

EjectInit ==
    /\ nes = NewBus
    /\ steps = 0
    /\ disk = NoFile
    /\ jlog = JlogNew
    /\ ex = [phase |-> "eject", panic |-> FALSE]

EjectRunning == ex.phase = "eject" /\ ~ex.panic /\ steps < MaxEjectSteps

EjLoadCartridge ==
    /\ EjectRunning
    /\ nes.cart = "none"
    /\ \E kind \in {"uxrom", "mmc3"} : nes' = LoadCartridgeOp(nes, kind)
    /\ steps' = steps + 1
    /\ UNCHANGED <<disk, ex, jlog>>

EjEject ==
    /\ EjectRunning
    /\ LET e == EjectCartridgeOp(nes)
       IN  /\ nes' = e.b
           /\ ex' = [ex EXCEPT !.panic = e.panic]
    /\ steps' = steps + 1
    /\ UNCHANGED <<disk, jlog>>

EjClock ==
    /\ EjectRunning
    /\ nes' = BusClock(nes, IdleInput)
    /\ steps' = steps + 1
    /\ UNCHANGED <<disk, ex, jlog>>

\* Reads of $2002, $4016 and $8000.
EjRead ==
    /\ EjectRunning
    /\ \E addr \in {8194, 16406, 32768} :
         nes' = [BusRead(nes, addr) EXCEPT !.obs.op = "read"]
    /\ steps' = steps + 1
    /\ UNCHANGED <<disk, ex, jlog>>

\* Writes to $2000, $4016 and $E001.
EjWrite ==
    /\ EjectRunning
    /\ \E addr \in {8192, 16406, 57345}, data \in {1, 128} :
         nes' = [BusWrite(nes, addr, data) EXCEPT !.obs.op = "write"]
    /\ steps' = steps + 1
    /\ UNCHANGED <<disk, ex, jlog>>

EjectNext == EjLoadCartridge \/ EjEject \/ EjClock \/ EjRead \/ EjWrite

SpecEject == EjectInit /\ [][EjectNext]_vars

\* C39: neither EjectCartridge, in any state, nor the ticks, reads and
\* writes made without a cartridge stop the program.
C39_EjectSafe == ex.phase = "eject" => ~ex.panic

-----------------------------------------------------------------------------
(* SpecRestore: states are saved and loaded while cartridges change and the *)
(* file is damaged.  disk.kind: the mapper whose Save wrote MapperState     *)
(* ("none": the Bus had no cartridge and the field is empty); disk.whole:   *)
(* gob can decode the file.  ex.err: what Bus.LoadState returned;           *)
(* ex.cartErr: Cartridge.LoadState returned an error inside it.             *)

MaxRestoreSteps == 6

\* Mapper.Load(b) returns an error: mmc3.Load hands a non-empty b to gob,
\* which cannot decode the single byte uxrom.Save writes; uxrom.Load and a
\* Load of no bytes return nil.
MapperLoadFails(cart, savedBy) == cart = "mmc3" /\ savedBy = "uxrom"

\* Bus.LoadState(filename).
BusLoadState(b, file) ==
    IF ~file.present THEN [b |-> b, err |-> "open", cartErr |-> FALSE]
    ELSE IF ~file.whole THEN [b |-> b, err |-> "decode", cartErr |-> FALSE]
    ELSE LET s == file.state
             fits == b.cart = "mmc3" /\ file.kind = "mmc3"
         IN  [b |-> [b EXCEPT !.SystemClocks = s.SystemClocks, !.cpu = s.CPU,
                              !.ppu = s.PPU, !.apu = s.APU,
                              !.mapper = IF fits THEN s.Cartridge ELSE @],
              err |-> "none",
              cartErr |-> b.cart # "none" /\ MapperLoadFails(b.cart, file.kind)]

RestoreInit ==
    /\ nes = NewBus
    /\ steps = 0
    /\ disk = [present |-> FALSE, whole |-> FALSE, kind |-> "none"]
    /\ jlog = JlogNew
    /\ ex = [phase |-> "restore", op |-> "new", err |-> "none",
             cartErr |-> FALSE]

RestoreRunning == ex.phase = "restore" /\ steps < MaxRestoreSteps

\* Bus.LoadCartridge with another cartridge than the one inserted.
RsLoadCartridge ==
    /\ RestoreRunning
    /\ \E kind \in {"uxrom", "mmc3"} :
         /\ kind # nes.cart
         /\ nes' = LoadCartridgeOp(nes, kind)
    /\ ex' = [ex EXCEPT !.op = "loadcart", !.err = "none", !.cartErr = FALSE]
    /\ steps' = steps + 1
    /\ UNCHANGED <<disk, jlog>>

RsClock ==
    /\ RestoreRunning
    /\ nes' = BusClock(nes, IdleInput)
    /\ ex' = [ex EXCEPT !.op = "clock", !.err = "none", !.cartErr = FALSE]
    /\ steps' = steps + 1
    /\ UNCHANGED <<disk, jlog>>

\* The game enables the MMC3 interrupt or the NMI.
RsWrite ==
    /\ RestoreRunning
    /\ \E addr \in {8192, 57345} :
         nes' = [BusWrite(nes, addr, 128) EXCEPT !.obs.op = "write"]
    /\ ex' = [ex EXCEPT !.op = "write", !.err = "none", !.cartErr = FALSE]
    /\ steps' = steps + 1
    /\ UNCHANGED <<disk, jlog>>

\* Bus.SaveState.
RsSaveState ==
    /\ RestoreRunning
    /\ disk' = [present |-> TRUE, whole |-> TRUE, kind |-> nes.cart,
                state |-> SaveStateOp(nes)]
    /\ nes' = [nes EXCEPT !.obs.op = "save"]
    /\ ex' = [ex EXCEPT !.op = "save", !.err = "none", !.cartErr = FALSE]
    /\ steps' = steps + 1
    /\ UNCHANGED jlog

\* The file is cut short on the disk.
RsDamage ==
    /\ RestoreRunning
    /\ disk.present /\ disk.whole
    /\ disk' = [disk EXCEPT !.whole = FALSE]
    /\ ex' = [ex EXCEPT !.op = "damage", !.err = "none", !.cartErr = FALSE]
    /\ steps' = steps + 1
    /\ UNCHANGED <<nes, jlog>>

RsLoadState ==
    /\ RestoreRunning
    /\ LET r == BusLoadState(nes, disk)
       IN  /\ nes' = [r.b EXCEPT !.obs.op = "load"]
           /\ ex' = [ex EXCEPT !.op = "load", !.err = r.err,
                               !.cartErr = r.cartErr]
    /\ steps' = steps + 1
    /\ UNCHANGED <<disk, jlog>>

RestoreNext ==
    \/ RsLoadCartridge \/ RsClock \/ RsWrite \/ RsSaveState \/ RsDamage
    \/ RsLoadState

SpecRestore == RestoreInit /\ [][RestoreNext]_vars

\* The state a load replaces.
Restorable(b) == <<b.SystemClocks, b.cpu, b.ppu, b.apu, b.mapper>>

\* C40: a load that fails, because the file cannot be opened or decoded or
\* because the saved mapper state does not fit the cartridge's mapper,
\* leaves the dot counter, the CPU, the PPU, the APU and the mapper as they
\* were before the call.
C40_FailedLoadAtomic ==
    [][(ex'.op = "load" /\ (ex'.err # "none" \/ ex'.cartErr)) =>
         Restorable(nes') = Restorable(nes)]_vars

-----------------------------------------------------------------------------
(* SpecThreads: the frame loop (Display.Update, on the window's goroutine)  *)
(* and a handler of the gRPC server (on a goroutine of its own) use the     *)
(* same Bus.  A Bus method is entered, runs and returns; ex.loop and ex.rpc *)
(* say where each goroutine is, and keep the Bus as the method found it.    *)
(* Two methods that run at once race on the fields of the Bus: the one that *)
(* returns last leaves its result computed from the Bus as it is then or    *)
(* as the method found it.                                                  *)

MaxThreadSteps == 5

\* Bus.Reset.
BusReset(b) == [b EXCEPT !.cpu = CPUReset(@)]

\* The file the remote LoadState names: saved when the game was loaded.
ThreadsFile ==
    [present |-> TRUE, whole |-> TRUE, kind |-> "uxrom",
     state |-> SaveStateOp(LoadCartridgeOp(NewBus, "uxrom"))]

\* The Bus method behind a remote call: ReadMemory($2002), LoadState,
\* ResetSystem.
RpcEffect(b, op) ==
    CASE op = "read"  -> [BusRead(b, 8194) EXCEPT !.obs.op = "read"]
      [] op = "load"  -> [BusLoadState(b, ThreadsFile).b EXCEPT !.obs.op = "load"]
      [] OTHER        -> [BusReset(b) EXCEPT !.obs.op = "reset"]

ThreadsInit ==
    /\ nes = LoadCartridgeOp(NewBus, "uxrom")
    /\ steps = 0
    /\ disk = NoFile
    /\ jlog = JlogNew
    /\ ex = [phase |-> "threads",
             loop |-> [pc |-> "idle", found |-> NewBus],
             rpc |-> [pc |-> "idle", op |-> "none", found |-> NewBus]]

\* Display.Update: d.bus.Clock() is entered.
LoopClockEnter ==
    /\ ex.phase = "threads"
    /\ steps < MaxThreadSteps
    /\ ex.loop.pc = "idle"
    /\ ex' = [ex EXCEPT !.loop = [pc |-> "clock", found |-> nes]]
    /\ UNCHANGED <<nes, steps, disk, jlog>>

\* d.bus.Clock() returns.
LoopClockReturn ==
    /\ ex.phase = "threads"
    /\ ex.loop.pc = "clock"
    /\ \E from \in {nes, ex.loop.found} : nes' = BusClock(from, IdleInput)
    /\ ex' = [ex EXCEPT !.loop = [pc |-> "idle", found |-> NewBus]]
    /\ steps' = steps + 1
    /\ UNCHANGED <<disk, jlog>>

\* A remote call arrives: the handler takes s.mu, copies s.emuBus and
\* releases s.mu.
RpcAccept ==
    /\ ex.phase = "threads"
    /\ steps < MaxThreadSteps
    /\ ex.rpc.pc = "idle"
    /\ \E op \in {"read", "load", "reset"} :
         ex' = [ex EXCEPT !.rpc = [pc |-> "handler", op |-> op, found |-> NewBus]]
    /\ UNCHANGED <<nes, steps, disk, jlog>>

\* The handler enters bus.Read, bus.LoadState or bus.Reset.
RpcEnter ==
    /\ ex.phase = "threads"
    /\ ex.rpc.pc = "handler"
    /\ ex' = [ex EXCEPT !.rpc.pc = "call", !.rpc.found = nes]
    /\ UNCHANGED <<nes, steps, disk, jlog>>

\* The Bus method returns to the handler, which answers the call.
RpcReturn ==
    /\ ex.phase = "threads"
    /\ ex.rpc.pc = "call"
    /\ \E from \in {nes, ex.rpc.found} : nes' = RpcEffect(from, ex.rpc.op)
    /\ ex' = [ex EXCEPT !.rpc = [pc |-> "idle", op |-> "none", found |-> NewBus]]
    /\ steps' = steps + 1
    /\ UNCHANGED <<disk, jlog>>

ThreadsNext ==
    LoopClockEnter \/ LoopClockReturn \/ RpcAccept \/ RpcEnter \/ RpcReturn

SpecThreads == ThreadsInit /\ [][ThreadsNext]_vars

\* C32: no Bus method is entered while another one is running: the frame
\* loop is never inside Bus.Clock while a remote call is inside Bus.Read,
\* Bus.LoadState or Bus.Reset.
C32_OneThread ==
    ex.phase = "threads" => ~(ex.loop.pc = "clock" /\ ex.rpc.pc = "call")

-----------------------------------------------------------------------------
(* SpecLen: pulse 1 plays a note to its end.  After power-on the CPU has    *)
(* written $01 to $4015 and $08 to $4003 (length index 1: 254), the frame   *)
(* counter is in 4-step mode and the halt flag is clear.  A run starts at   *)
(* the beginning of a frame sequence, done sequences after the writes: each *)
(* sequence is 29830 CPU cycles and clocks the length counters twice.  The  *)
(* runs follow the first sequences and the last ones; the CPU may load the  *)
(* counter again once it is 0.  Bus.Clock is called for ever by the frame   *)
(* loop, hence the fairness on LenClock.                                    *)

\* Sequences followed from the write.
LenHeadSequences == 1

\* Sequences left when the last run starts.
LenTailSequences == 2

MaxLenReloads == 1

\* PulseChannel.output.  tone: what the timer, the duty sequencer and the
\* volume give when the channel is heard.
PulseOutput(ch, tone) ==
    IF ~ch.enabled THEN 0
    ELSE IF ch.lengthCounter = 0 THEN 0
    ELSE tone

\* The APU done sequences after the two writes.
LenAfter(done) ==
    LET a == APUUnitWrite(APUUnitWrite(NewAPUUnit, 16405, 1), 16387, 8)
    IN  [a EXCEPT !.pulse1.lengthCounter = @ - 2 * done]

LenInit ==
    /\ nes = NewBus
    /\ steps = 0
    /\ disk = NoFile
    /\ jlog = JlogNew
    /\ \E done \in {0, 127 - LenTailSequences} :
         ex = [phase |-> "len", a |-> LenAfter(done), op |-> "start",
               reloads |-> 0]

\* Bus.Clock on a CPU tick: APU.Clock, the DMC idle.
LenClock ==
    /\ ex.phase = "len"
    /\ \/ ex.a.pulse1.lengthCounter > 254 - 2 * LenHeadSequences
       \/ ex.a.pulse1.lengthCounter <= 2 * LenTailSequences
    /\ ex' = [ex EXCEPT !.a = APUUnitClock(ex.a, FALSE, FALSE), !.op = "clock"]
    /\ UNCHANGED <<nes, steps, disk, jlog>>

\* Bus.Write of $18 to $4003 (length index 3: 2) once the note has ended,
\* at the start of a sequence or just before its first length clock.
LenReload ==
    /\ ex.phase = "len"
    /\ ex.reloads < MaxLenReloads
    /\ ex.a.pulse1.lengthCounter = 0
    /\ ex.a.cycle = 0 /\ ex.a.frameCounter \in {0, 7456}
    /\ ex' = [ex EXCEPT !.a = APUUnitWrite(ex.a, 16387, 24), !.op = "reload",
                        !.reloads = @ + 1]
    /\ UNCHANGED <<nes, steps, disk, jlog>>

LenNext == LenClock \/ LenReload

SpecLen == LenInit /\ [][LenNext]_vars /\ WF_vars(LenClock)

\* C31: on every APU cycle the length counter of pulse 1 goes down by one
\* if the cycle is a length-clocking step of the 4-step sequence (frame
\* counter reaching 7457 or 14915) and the counter is above 0, and stays as
\* it is otherwise; it is never below 0; in the last sequences it reaches
\* 0; while it is 0 the channel's output is 0 whatever the tone, and only a
\* reload by the CPU takes it off 0.
C31_LengthCounter ==
    /\ [][ex'.op = "clock" =>
            LET lengthStep == ex.a.cycle = 0 /\ ex.a.frameCounter \in {7456, 14914}
            IN  ex'.a.pulse1.lengthCounter =
                  IF lengthStep /\ ex.a.pulse1.lengthCounter > 0
                  THEN ex.a.pulse1.lengthCounter - 1
                  ELSE ex.a.pulse1.lengthCounter]_vars
    /\ [](ex.a.pulse1.lengthCounter >= 0)
    /\ (ex.a.pulse1.lengthCounter <= 2 * LenTailSequences)
         ~> (ex.a.pulse1.lengthCounter = 0)
    /\ [](ex.a.pulse1.lengthCounter = 0 =>
            \A tone \in 0..15 : PulseOutput(ex.a.pulse1, tone) = 0)
    /\ [][(ex.a.pulse1.lengthCounter = 0 /\ ex'.a.pulse1.lengthCounter # 0)
            => ex'.op = "reload"]_vars

\* C31's case: the second length clock of a sequence has just taken the
\* counter of the enabled channel from 1 to 0, with no reload before.
C31_Witness ==
    /\ ex.phase = "len"
    /\ ex.op = "clock" /\ ex.reloads = 0
    /\ ex.a.pulse1.enabled /\ ~ex.a.pulse1.lengthCounterHalt
    /\ ex.a.sequenceMode = 0
    /\ ex.a.frameCounter = 0 /\ ex.a.cycle = 1
    /\ ex.a.pulse1.lengthCounter = 0
====
